---- MODULE Spec2Model ----
(***************************************************************************)
(* Model of the secure installation pipeline of mcp-prompt-optimizer-local *)
(* (secure-postinstall.js, lib/binary-integrity-verifier.js,               *)
(* lib/enhanced-api-key-check.js).                                         *)
(*                                                                         *)
(* One installation attempt is one SecurePostInstaller: the constructor    *)
(* reads the environment, run() drives runSecurityGates (Gate 1 API key,   *)
(* Gate 2 ensureBinaryAvailable with the GitHub release download, Gate 3   *)
(* quickVerify), then the compatibility checks and the post-install tasks. *)
(* File contents are abstract content ids; SHA256 is an injective map from *)
(* content ids to digests (no collisions).                                 *)
(*                                                                         *)
(* Spec is the installer.  SpecPackage adds what the package does outside  *)
(* an installation: quickVerify called on its own, the manifest file       *)
(* disappearing between two gates, and the runtime (lib/binary-manager.js) *)
(* starting the installed binary.  SpecLive is the installer against a     *)
(* server that redirects without end, with weak fairness.                  *)
(***************************************************************************)
EXTENDS Integers, Sequences, FiniteSets, TLC

VARIABLES
    env,            \* process.env (the variables the installer reads)
    keySources,     \* the three places getApiKey looks at
    host,           \* process.platform, process.arch
    manifestFile,   \* manifest.json on disk
    bin,            \* the bin/ directory: filename -> file
    bin0,           \* bin/ as it was when the attempt started (history)
    isCI,           \* SecurePostInstaller.isCI
    pc,             \* position of run()
    results,        \* the record runSecurityGates builds and returns
    verifier,       \* the BinaryIntegrityVerifier of ensureBinaryAvailable
    dl,             \* the download in flight (downloadFile recursion)
    calls,          \* call counts of the collaborators (instrumentation)
    lastVerify,     \* the latest verifyCurrentPlatform call: file seen, outcome
    gateLog,        \* gates executed so far, in order
    compat,         \* compatibilityResults of run()
    exitCode,       \* process exit status, -1 while running
    runtime,        \* what BinaryManager.executeBinary has started
    loaded,         \* the loadManifest calls on `verifier` (instrumentation)
    license,        \* outcome of the check-license command, once it has run
    gen,            \* the latest run of the manifest generator (history)
    other,          \* the download of a second installer on the same bin/
    cache,          \* ~/.mcp-license-cache.json
    clock           \* Date.now(), in hours

vars == << env, keySources, host, manifestFile, bin, bin0, isCI, pc, results,
           verifier, dl, calls, lastVerify, gateLog, compat, exitCode, runtime, loaded,
           license, gen, other, cache, clock >>

-----------------------------------------------------------------------------
(* Bounds of the model *)

\* longest redirect chain the modelled server produces
MaxRedirects == 2

-----------------------------------------------------------------------------
(* Values *)

Unset == "<unset>"
Null == "null"
Undefined == "undefined"

\* placeholder threshold of verifyBinary: fileSize < 10000
PlaceholderMaxSize == 10000

\* checkNodeVersion: major >= 16
MinNodeMajor == 16

NodeMajors == {14, 16, 20}

\* abstract file contents
Contents == {"real", "tampered", "stub", "bigstub", "empty", "partial"}

\* fileBuffer.length
FileSize(c) ==
    CASE c = "real"     -> 20000
      [] c = "tampered" -> 20000
      [] c = "stub"     -> 120
      [] c = "bigstub"  -> 10000
      [] c = "partial"  -> 7000
      [] OTHER          -> 0

\* fileBuffer.toString().includes('placeholder')
HasMarker(c) == c \in {"stub", "bigstub"}

\* crypto.createHash('sha256').update(fileBuffer).digest('hex')
SHA256(c) == "h_" \o c

NoFile == [exists |-> FALSE, content |-> "none", exec |-> FALSE]
File(c, x) == [exists |-> TRUE, content |-> c, exec |-> x]

PlatformKeys == {"win32-x64", "darwin-x64", "darwin-arm64", "linux-x64", "linux-arm64"}

\* expectedBinaries of the manifest generator
FilenameOf(k) ==
    CASE k = "win32-x64"    -> "mcp-optimizer-windows-x64.exe"
      [] k = "darwin-x64"   -> "mcp-optimizer-macos-x64"
      [] k = "darwin-arm64" -> "mcp-optimizer-macos-arm64"
      [] k = "linux-x64"    -> "mcp-optimizer-linux-x64"
      [] OTHER              -> "mcp-optimizer-linux-arm64"

FileNames == {FilenameOf(k) : k \in PlatformKeys}

-----------------------------------------------------------------------------
(* secure-postinstall.js: detectCIEnvironment *)

\* variant: one marker is enough
isStrictCI_AnyMarker(e) ==
    \/ (e.CI = "true" \/ e.CI = "1")
    \/ e.GITHUB_ACTIONS = "true"
    \/ e.TRAVIS = "true"
    \/ e.CIRCLECI = "true"
    \/ (e.JENKINS_URL # Unset /\ e.JENKINS_URL # "")

isStrictCI(e) ==
    /\ (e.CI = "true" \/ e.CI = "1")
    /\ \/ e.GITHUB_ACTIONS = "true"
       \/ e.TRAVIS = "true"
       \/ e.CIRCLECI = "true"
       \/ (e.JENKINS_URL # Unset /\ e.JENKINS_URL # "")

devOverride(e) == e.OPTIMIZER_SKIP_SECURITY = "true"

detectCIEnvironment(e) == isStrictCI(e) \/ devOverride(e)

-----------------------------------------------------------------------------
(* lib/enhanced-api-key-check.js *)

\* A key is its text plus the facts the string tests of the code extract
\* from it:
\* ws       - the stored string has a space before and after the text
\* length   - length of the text
\* format   - matches one of the three patterns of isValidKeyFormat
\* hexRun   - length of the first run of >= 20 hex characters, 0 if none
\* hexChars - number of distinct characters in that run
\* test     - matches one of the patterns of isTestKey
\* skLocal  - starts with 'sk-local-'
\* marks    - which of '-pro-', '_live_', '-basic-', '_test_' it includes
NoKey == [text |-> "", ws |-> FALSE, length |-> 0, format |-> FALSE, hexRun |-> 0,
          hexChars |-> 0, test |-> FALSE, skLocal |-> FALSE, marks |-> {}]

\* a string of spaces: truthy, empty once trimmed
BlankKey == [NoKey EXCEPT !.ws = TRUE]

ProKey == [text |-> "sk-local-pro-0123456789abcdef0123456789abcdef", ws |-> FALSE,
           length |-> 45, format |-> TRUE, hexRun |-> 32, hexChars |-> 16,
           test |-> FALSE, skLocal |-> TRUE, marks |-> {"-pro-"}]

\* the key of test-security.js
TestKey == [text |-> "sk-local-test-key-1234567890abcdef", ws |-> FALSE,
            length |-> 34, format |-> FALSE, hexRun |-> 0, hexChars |-> 0,
            test |-> TRUE, skLocal |-> TRUE, marks |-> {}]

ZeroKey == [text |-> "sk-local-basic-00000000000000000000000000000000", ws |-> FALSE,
            length |-> 47, format |-> TRUE, hexRun |-> 32, hexChars |-> 1,
            test |-> TRUE, skLocal |-> TRUE, marks |-> {"-basic-"}]

LiveKey == [text |-> "mcp_live_0123456789abcdef0123456789abcdef", ws |-> FALSE,
            length |-> 41, format |-> TRUE, hexRun |-> 32, hexChars |-> 16,
            test |-> FALSE, skLocal |-> FALSE, marks |-> {"_live_"}]

OptKey == [text |-> "opt_0123456789abcdef0123456789abcdef01234567", ws |-> FALSE,
           length |-> 44, format |-> TRUE, hexRun |-> 40, hexChars |-> 16,
           test |-> FALSE, skLocal |-> FALSE, marks |-> {}]

\* well-formed, two distinct hex characters
WeakKey == [text |-> "sk-local-pro-aaaaaaaabbbbbbbbaaaaaaaabbbbbbbb", ws |-> FALSE,
            length |-> 45, format |-> TRUE, hexRun |-> 32, hexChars |-> 2,
            test |-> FALSE, skLocal |-> TRUE, marks |-> {"-pro-"}]

\* well-formed, varied, starting with twenty zeros
PaddedKey == [text |-> "sk-local-basic-00000000000000000000123456789abc", ws |-> FALSE,
              length |-> 47, format |-> TRUE, hexRun |-> 32, hexChars |-> 13,
              test |-> TRUE, skLocal |-> TRUE, marks |-> {"-basic-"}]

\* a key of the earlier scheme: prefix and tier, no 32 hex characters
LegacyKey == [text |-> "sk-local-basic-2023-customer-0042", ws |-> FALSE,
              length |-> 33, format |-> FALSE, hexRun |-> 0, hexChars |-> 0,
              test |-> FALSE, skLocal |-> TRUE, marks |-> {"-basic-"}]

\* the keys of test/integration-test.js
ShortTestKey == [text |-> "sk-local-test-12345", ws |-> FALSE,
                 length |-> 19, format |-> FALSE, hexRun |-> 0, hexChars |-> 0,
                 test |-> FALSE, skLocal |-> TRUE, marks |-> {}]

InvalidKey == [text |-> "invalid-key", ws |-> FALSE,
               length |-> 11, format |-> FALSE, hexRun |-> 0, hexChars |-> 0,
               test |-> FALSE, skLocal |-> FALSE, marks |-> {}]

Keys == {NoKey, BlankKey, ProKey, [ProKey EXCEPT !.ws = TRUE], TestKey, ZeroKey,
         LiveKey, OptKey, WeakKey, PaddedKey, LegacyKey, ShortTestKey, InvalidKey}

\* String.prototype.trim
trim(key) == [key EXCEPT !.ws = FALSE]

\* line 14: with OPTIMIZER_API_KEY unset or empty the path of the config file
\* is built from HOME or USERPROFILE; src.home says one of them is set, and
\* path.join throws a TypeError for undefined
getApiKeyThrows(src) == src.env = NoKey /\ ~src.home

\* a source provides NoKey when its file is absent or unparsable, or holds
\* no value (an empty string is falsy, `(.+)` needs a character); the null
\* of line 38 is NoKey as well
getApiKey(src) ==
    IF src.env # NoKey THEN trim(src.env)
    ELSE IF src.config # NoKey THEN trim(src.config)
    ELSE IF src.dotenv # NoKey THEN trim(src.dotenv)
    ELSE NoKey

isValidKeyFormat(key) == key # NoKey /\ key.format

hasGoodEntropy(key) == key.hexRun >= 20 /\ key.hexChars >= 8

isTestKey(key) == key.test

validateKeyStrength(key) ==
    [length     |-> key.length >= 25,
     format     |-> isValidKeyFormat(key),
     entropy    |-> hasGoodEntropy(key),
     notTestKey |-> ~isTestKey(key)]

getKeyTier(key) ==
    IF "-pro-" \in key.marks \/ "_live_" \in key.marks THEN "pro"
    ELSE IF "-basic-" \in key.marks \/ "_test_" \in key.marks THEN "basic"
    ELSE "unknown"

\* what the two error messages name (lines 119-132 and 141-152)
SetupMethods == {"OPTIMIZER_API_KEY", "~/.mcp_optimizer/config.json", ".env"}
FormatExamples == {"sk-local-basic-", "sk-local-pro-", "mcp_live_"}

\* the exported function: a result, or a thrown error with the first line
\* of its message and what the message names
requireValidApiKey(src) ==
    LET apiKey == getApiKey(src)
        checks == validateKeyStrength(apiKey)
    IN  IF getApiKeyThrows(src)
        THEN [ok |-> FALSE, error |-> "TypeError",
              names |-> {}, tier |-> "none", valid |-> FALSE, key |-> NoKey]
        ELSE IF apiKey = NoKey
        THEN [ok |-> FALSE, error |-> "No MCP Optimizer API key found",
              names |-> SetupMethods, tier |-> "none", valid |-> FALSE, key |-> NoKey]
        ELSE IF ~(checks.length /\ checks.format /\ checks.entropy /\ checks.notTestKey)
        THEN [ok |-> FALSE, error |-> "Invalid API key format",
              names |-> FormatExamples, tier |-> "none", valid |-> FALSE, key |-> NoKey]
        ELSE [ok |-> TRUE, error |-> "", names |-> {}, tier |-> getKeyTier(apiKey),
              valid |-> TRUE, key |-> apiKey]

-----------------------------------------------------------------------------
(* lib/binary-integrity-verifier.js *)

\* constructor: this.devMode
devModeOf(e) == e.NODE_ENV = "development" \/ e.MCP_DEV_MODE = "true"

\* this.manifest = null; also a manifest file that is absent, unreadable or
\* not JSON.  readable: readFileSync and JSON.parse succeeded; truthy: the
\* parsed value is truthy (an object, not null, false, 0 or ""); hasBinaries:
\* the parsed value has a binaries object.
NoManifest == [readable |-> FALSE, truthy |-> FALSE, hasBinaries |-> FALSE,
               binaries |-> << >>]

\* path.join(__dirname, '..', 'manifest.json')
DefaultManifestPath == "<package>/manifest.json"

\* a path no file is at (test-security.js)
NonexistentManifestPath == "/nonexistent/manifest.json"

\* constructor(manifestPath)
NewVerifierAt(e, manifestPath) ==
    [manifest |-> NoManifest, devMode |-> devModeOf(e),
     manifestPath |-> IF manifestPath = Undefined THEN DefaultManifestPath
                      ELSE manifestPath]

NewVerifier(e) == NewVerifierAt(e, Undefined)

\* fs.readFileSync(path) and JSON.parse: mf is the file at the default path
readManifest(path, mf) == IF path = DefaultManifestPath THEN mf ELSE NoManifest

\* loadManifest: the memoized manifest if there is one, else the file;
\* a file that cannot be read or parsed makes it throw
loadManifest(v, mf) ==
    IF v.manifest.truthy THEN v.manifest ELSE readManifest(v.manifestPath, mf)

normalizedPlatform(p) ==
    CASE p = "win32"  -> "win32"
      [] p = "darwin" -> "darwin"
      [] p = "linux"  -> "linux"
      [] OTHER        -> p

\* variant: an architecture that is not in the map passes through, as an
\* operating system does
normalizedArch_PassThrough(a) ==
    CASE a = "x86_64"  -> "x64"
      [] a = "aarch64" -> "arm64"
      [] OTHER         -> a

normalizedArch(a) ==
    CASE a = "x64"     -> "x64"
      [] a = "x86_64"  -> "x64"
      [] a = "arm64"   -> "arm64"
      [] a = "aarch64" -> "arm64"
      [] OTHER         -> "x64"

detectPlatform(h) == normalizedPlatform(h.platform) \o "-" \o normalizedArch(h.arch)

\* process.platform and process.arch when an error does not report them
NoHost == [platform |-> "", arch |-> ""]

\* results and errors of the verifier share one record shape.  Beyond the
\* fields of the JavaScript objects: ok (returned, not thrown), hashed (the
\* SHA-256 of the file was computed), sizeMismatch (the size warning of
\* line 122 was logged), and the details an error message carries:
\* expected and actual digest, available platform keys, raw platform and
\* architecture, manifest path.
VOk(hash, size, isPh, dev, plat) ==
    [ok |-> TRUE, verified |-> TRUE, isPlaceholder |-> isPh, hash |-> hash,
     size |-> size, devMode |-> dev, platform |-> plat,
     error |-> "", expected |-> "", actual |-> "",
     hashed |-> FALSE, sizeMismatch |-> FALSE,
     available |-> {}, raw |-> NoHost, path |-> ""]

VErr(kind, expected, actual, size) ==
    [ok |-> FALSE, verified |-> FALSE, isPlaceholder |-> FALSE, hash |-> Undefined,
     size |-> size, devMode |-> FALSE, platform |-> "",
     error |-> kind, expected |-> expected, actual |-> actual,
     hashed |-> FALSE, sizeMismatch |-> FALSE,
     available |-> {}, raw |-> NoHost, path |-> ""]

\* the value of a result field before its gate has run
NullVerify == VErr("null", "", "", 0)

isPlaceholderFile(f) == FileSize(f.content) < PlaceholderMaxSize /\ HasMarker(f.content)

\* line 121: binaryInfo.size && stats.size !== binaryInfo.size (a size of
\* null or 0 is falsy)
sizeDiffers(binaryInfo, f) == binaryInfo.size # 0 /\ FileSize(f.content) # binaryInfo.size

\* variant: a size that differs from the recorded one fails the verification
verifyBinary_SizeBlocking(f, expectedHash, binaryInfo, devMode) ==
    IF ~f.exists THEN VErr("Binary not found", "", "", 0)
    ELSE IF isPlaceholderFile(f)
    THEN IF devMode \/ binaryInfo.dev_placeholder
         THEN VOk("placeholder", FileSize(f.content), TRUE, TRUE, "")
         ELSE VErr("Placeholder binary detected in production mode", "", "", 0)
    ELSE IF SHA256(f.content) # expectedHash
    THEN [VErr("Hash mismatch", expectedHash, SHA256(f.content), FileSize(f.content))
             EXCEPT !.hashed = TRUE]
    ELSE IF sizeDiffers(binaryInfo, f)
    THEN [VErr("Size mismatch", "", "", FileSize(f.content)) EXCEPT !.hashed = TRUE]
    ELSE [VOk(SHA256(f.content), FileSize(f.content), FALSE, FALSE, "")
             EXCEPT !.hashed = TRUE]

\* variant: development mode also skips the hash comparison
verifyBinary_TrustDevMode(f, expectedHash, binaryInfo, devMode) ==
    IF ~f.exists THEN VErr("Binary not found", "", "", 0)
    ELSE IF isPlaceholderFile(f)
    THEN IF devMode \/ binaryInfo.dev_placeholder
         THEN VOk("placeholder", FileSize(f.content), TRUE, TRUE, "")
         ELSE VErr("Placeholder binary detected in production mode", "", "", 0)
    ELSE IF SHA256(f.content) # expectedHash /\ ~devMode
    THEN [VErr("Hash mismatch", expectedHash, SHA256(f.content), FileSize(f.content))
             EXCEPT !.hashed = TRUE]
    ELSE [VOk(SHA256(f.content), FileSize(f.content), FALSE, FALSE, "")
             EXCEPT !.hashed = TRUE,
                    !.sizeMismatch = sizeDiffers(binaryInfo, f)]

verifyBinary(f, expectedHash, binaryInfo, devMode) ==
    IF ~f.exists THEN VErr("Binary not found", "", "", 0)
    ELSE IF isPlaceholderFile(f)
    THEN IF devMode \/ binaryInfo.dev_placeholder
         THEN VOk("placeholder", FileSize(f.content), TRUE, TRUE, "")
         ELSE VErr("Placeholder binary detected in production mode", "", "", 0)
    ELSE IF SHA256(f.content) # expectedHash
    THEN [VErr("Hash mismatch", expectedHash, SHA256(f.content), FileSize(f.content))
             EXCEPT !.hashed = TRUE]
    ELSE [VOk(SHA256(f.content), FileSize(f.content), FALSE, FALSE, "")
             EXCEPT !.hashed = TRUE,
                    !.sizeMismatch = sizeDiffers(binaryInfo, f)]

\* variant: the message names the default path
ManifestLoadError_DefaultPath(v) ==
    [VErr("Failed to load manifest", "", "", 0) EXCEPT !.path = DefaultManifestPath]

\* the error of loadManifest, line 25
ManifestLoadError(v) ==
    [VErr("Failed to load manifest", "", "", 0) EXCEPT !.path = v.manifestPath]

\* variant: the error lists the five platforms the package is built for
UnsupportedPlatformError_FixedSet(m, h) ==
    [VErr("No binary available for platform", "", "", 0)
        EXCEPT !.available = PlatformKeys, !.raw = h, !.platform = detectPlatform(h)]

\* the error of verifyCurrentPlatform, lines 212-224
UnsupportedPlatformError(m, h) ==
    [VErr("No binary available for platform", "", "", 0)
        EXCEPT !.available = DOMAIN m.binaries, !.raw = h,
               !.platform = detectPlatform(h)]

\* verifyCurrentPlatform of verifier v; mf is the manifest file on disk.
\* A manifest without a binaries object makes line 207 throw a TypeError, an
\* entry without a filename makes path.join of line 228 throw one.
verifyCurrentPlatform(v, mf, h, dir) ==
    LET m == loadManifest(v, mf)
        platformKey == detectPlatform(h)
    IN
    IF ~m.readable THEN ManifestLoadError(v)
    ELSE IF ~m.hasBinaries THEN VErr("TypeError", "", "", 0)
    ELSE IF platformKey \notin DOMAIN m.binaries
    THEN UnsupportedPlatformError(m, h)
    ELSE LET binaryInfo == m.binaries[platformKey] IN
         IF binaryInfo.filename = Undefined THEN VErr("TypeError", "", "", 0)
         ELSE IF binaryInfo.missing
         THEN IF v.devMode \/ binaryInfo.dev_placeholder
              THEN VOk(Undefined, 0, TRUE, TRUE, platformKey)
              ELSE VErr("missing in production build", "", "", 0)
         ELSE LET r == verifyBinary(dir[binaryInfo.filename], binaryInfo.sha256,
                                    binaryInfo, v.devMode)
              IN  IF r.ok THEN [r EXCEPT !.platform = platformKey] ELSE r

\* the file verifyCurrentPlatform looks at: bin/<entry.filename>
SeenFile(m, h, dir) ==
    IF /\ m.readable
       /\ m.hasBinaries
       /\ detectPlatform(h) \in DOMAIN m.binaries
       /\ m.binaries[detectPlatform(h)].filename # Undefined
    THEN dir[m.binaries[detectPlatform(h)].filename]
    ELSE NoFile

NoVerify == [called |-> FALSE, manifestPath |-> "", file |-> NoFile, result |-> NullVerify]

\* getPlatformInfo().supported
supported(m, h) == detectPlatform(h) \in DOMAIN m.binaries

\* static quickVerify(binDir, manifestPath): a fresh verifier, then
\* verifyCurrentPlatform
quickVerify(e, mf, h, dir, manifestPath) ==
    verifyCurrentPlatform(NewVerifierAt(e, manifestPath), mf, h, dir)

-----------------------------------------------------------------------------
(* secure-postinstall.js: the installer *)

NullApiKey == [ok |-> FALSE, error |-> "null", names |-> {}, tier |-> "none", valid |-> FALSE,
               key |-> NoKey]

NewResults(ci) ==
    [apiKey |-> NullApiKey, binaryIntegrity |-> NullVerify, binaryAvailable |-> Null,
     overall |-> FALSE, errors |-> << >>, warnings |-> << >>, skippedInCI |-> ci]

GateError(gate, kind, expected, actual) ==
    [gate |-> gate, kind |-> kind, expected |-> expected, actual |-> actual]

\* no response yet; a response is its status code and whether it has a
\* location header
NoResponse == [status |-> "", location |-> FALSE]

Response(status, location) == [status |-> status, location |-> location]

\* the URLs of a download: the release URL fetchFromGitHubRelease builds,
\* and two URLs the server redirects to
ReleaseUrl == "https://github.com/<owner>/<repo>/releases/download/v<version>/<filename>"

\* response.headers.location of the modelled server: the release URL
\* redirects to a first mirror, the two mirrors redirect to each other
Location(url) ==
    CASE url = ReleaseUrl -> "https://mirror-a/<filename>"
      [] url = "https://mirror-a/<filename>" -> "https://mirror-b/<filename>"
      [] OTHER -> "https://mirror-a/<filename>"

\* statuses downloadFile follows as redirects
RedirectStatuses == {"301", "302"}

\* statuses that are neither 200 nor followed: a redirect status of
\* another kind, a client error
OtherStatuses == {"307", "404"}

\* dest: the file being written; hops: redirects followed; url: the URL of
\* the request in flight; response: the latest response received
NoDownload == [dest |-> "none", hops |-> 0, url |-> "none", response |-> NoResponse]

NoCompat == [ran |-> FALSE, evaluated |-> {}, nodeVersion |-> FALSE, platform |-> FALSE,
             permissions |-> FALSE]

\* nothing has been started.  fallbackStrategy: this.fallbackStrategy, null
\* until a discoverBinary that found no binary sets it; exit: how the
\* spawned binary ended; settled: how the promise of executeBinary settled
NoRuntime == [started |-> FALSE, via |-> "none", name |-> "none", file |-> NoFile,
              fallbackStrategy |-> Null, exit |-> "", settled |-> ""]

\* the manifest generator has not run.  op: "dev" (--dev-mode) or "update"
\* (--platform, --binary); input: the file --binary names; commit: the build
\* commit of the run; exit: its exit status; before: manifest.json as the run
\* found it; runs: runs so far, also the clock new Date() reads; fromDev:
\* manifest.json was written by --dev-mode and since then only by updates
NoRun == [op |-> "none", platform |-> "", input |-> NoFile, commit |-> "",
          exit |-> -1, before |-> NoManifest, runs |-> 0, fromDev |-> FALSE]

\* no cache file.  apiKey: the key the entry was written for; timestamp: the
\* clock when it was written; dated: the timestamp string parses as a date
\* (else getTime() is NaN); valid, type: the validation it holds
NoCache == [exists |-> FALSE, apiKey |-> NoKey, timestamp |-> 0, dated |-> FALSE,
            valid |-> FALSE, type |-> ""]

\* check-license has not run
NoLicense == [checked |-> FALSE, valid |-> FALSE, error |-> "", type |-> "",
              output |-> "", exit |-> -1]

\* no loadManifest call yet.  calls: loadManifest calls so far; reads:
\* readFileSync calls they made; onInstance: calls on the current instance;
\* threw / returned: outcome of the latest call; okBefore: an earlier call
\* on the current instance returned without throwing, and lastOk is what the
\* latest such call returned.
NoLoad == [calls |-> 0, reads |-> 0, onInstance |-> 0, threw |-> FALSE,
           returned |-> NoManifest, okBefore |-> FALSE, lastOk |-> NoManifest]

NoCalls == [apiKey |-> 0, verifierNew |-> 0, verify |-> 0, fetch |-> 0, fetchOk |-> 0,
            requests |-> 0, compat |-> 0, postInstall |-> 0]

\* variant: the stream creates the file with mode 0o755
createWriteStream_Mode755(dir, dest) ==
    [dir EXCEPT ![dest] = File("empty", TRUE)]

\* fs.createWriteStream(destinationPath): flags 'w' create the file or
\* truncate it; the mode of an existing file is kept
createWriteStream(dir, dest) ==
    [dir EXCEPT ![dest] = File("empty", dir[dest].exists /\ dir[dest].exec)]

\* variant: a failed Gate 1 records its error and goes on to Gate 2
GateFails_Continue(gate, kind, expected, actual) ==
    /\ results' = [results EXCEPT !.errors = Append(@, GateError(gate, kind, expected, actual))]
    /\ pc' = IF gate = "API Key" THEN "gate2" ELSE "gatesReturned"

\* a catch block of runSecurityGates: push the error, return results
GateFails(gate, kind, expected, actual) ==
    /\ results' = [results EXCEPT !.errors = Append(@, GateError(gate, kind, expected, actual))]
    /\ pc' = "gatesReturned"

\* variant: the key is validated before the gates are skipped
RunSecurityGatesSkipped_ValidatesKey ==
    /\ pc = "constructed"
    /\ isCI
    /\ calls' = [calls EXCEPT !.apiKey = @ + 1]
    /\ results' = [results EXCEPT !.overall = requireValidApiKey(keySources).ok]
    /\ pc' = "gatesReturned"
    /\ UNCHANGED << clock, cache, other, gen, license, loaded, runtime, env, keySources, host, manifestFile, bin, bin0, isCI, verifier,
                    dl, lastVerify, gateLog, compat, exitCode >>

\* runSecurityGates, lines 167-172: CI/dev override skips the gates
RunSecurityGatesSkipped ==
    /\ pc = "constructed"
    /\ isCI
    /\ results' = [results EXCEPT !.overall = TRUE]
    /\ pc' = "gatesReturned"
    /\ UNCHANGED << clock, cache, other, gen, license, loaded, runtime, env, keySources, host, manifestFile, bin, bin0, isCI, verifier,
                    dl, calls, lastVerify, gateLog, compat, exitCode >>

\* Gate 1: API key
Gate1ApiKey ==
    /\ pc = "constructed"
    /\ ~isCI
    /\ LET r == requireValidApiKey(keySources) IN
       /\ calls' = [calls EXCEPT !.apiKey = @ + 1]
       /\ gateLog' = Append(gateLog, "apiKey")
       /\ IF r.ok
          THEN /\ results' = [results EXCEPT !.apiKey = r]
               /\ pc' = "gate2"
          ELSE GateFails("API Key", r.error, "", "")
    /\ UNCHANGED << clock, cache, other, gen, license, loaded, runtime, env, keySources, host, manifestFile, bin, bin0, isCI, verifier,
                    dl, lastVerify, compat, exitCode >>

\* variant: a verified placeholder counts as the binary
localBinaryAccepted_Placeholder(present, result) ==
    present /\ result.ok /\ result.verified

\* ensureBinaryAvailable, lines 130-136: the local binary is used as it is
\* only if it exists, verifies and is not a placeholder
localBinaryAccepted(present, result) ==
    present /\ result.ok /\ result.verified /\ ~result.isPlaceholder

\* Gate 2, ensureBinaryAvailable up to the point where it either returns the
\* local binary, throws, or has issued the first request of the download
\* (fetchFromGitHubRelease -> downloadFile: createWriteStream, https.get).
\* repoOk: the repository URL of package.json matches the GitHub pattern.
Gate2EnsureBinaryAvailable ==
    /\ pc = "gate2"
    /\ gateLog' = Append(gateLog, "binaryAvailable")
    /\ LET v0 == NewVerifier(env)
           m  == loadManifest(v0, manifestFile)
           v1 == [v0 EXCEPT !.manifest = IF m.readable THEN m ELSE @]
       IN
       /\ verifier' = v1
       /\ IF ~m.readable
          THEN /\ GateFails("Binary Availability", "Failed to load manifest", "", "")
               /\ calls' = [calls EXCEPT !.verifierNew = @ + 1]
               /\ UNCHANGED << bin, dl, lastVerify >>
          ELSE IF ~m.hasBinaries
          THEN /\ GateFails("Binary Availability", "TypeError", "", "")
               /\ calls' = [calls EXCEPT !.verifierNew = @ + 1]
               /\ UNCHANGED << bin, dl, lastVerify >>
          ELSE IF ~supported(m, host)
          THEN /\ GateFails("Binary Availability", "Platform not supported", "", "")
               /\ calls' = [calls EXCEPT !.verifierNew = @ + 1]
               /\ UNCHANGED << bin, dl, lastVerify >>
          ELSE IF m.binaries[detectPlatform(host)].filename = Undefined
          THEN /\ GateFails("Binary Availability", "TypeError", "", "")
               /\ calls' = [calls EXCEPT !.verifierNew = @ + 1]
               /\ UNCHANGED << bin, dl, lastVerify >>
          ELSE LET expectedBinary == m.binaries[detectPlatform(host)]
                   present == bin[expectedBinary.filename].exists
                   result  == verifyCurrentPlatform(v1, manifestFile, host, bin)
                   nverify == IF present THEN 1 ELSE 0
               IN
               /\ lastVerify' = IF present
                                THEN [called |-> TRUE, manifestPath |-> v1.manifestPath,
                                      file |-> bin[expectedBinary.filename],
                                      result |-> result]
                                ELSE lastVerify
               /\ IF localBinaryAccepted(present, result)
                  THEN /\ results' = [results EXCEPT !.binaryAvailable = expectedBinary.filename]
                       /\ pc' = "gate3"
                       /\ calls' = [calls EXCEPT !.verifierNew = @ + 1, !.verify = @ + 1]
                       /\ UNCHANGED << bin, dl >>
                  ELSE \E repoOk \in BOOLEAN :
                       IF ~repoOk
                       THEN /\ GateFails("Binary Availability", "Invalid repository URL", "", "")
                            /\ calls' = [calls EXCEPT !.verifierNew = @ + 1,
                                                      !.verify = @ + nverify,
                                                      !.fetch = @ + 1]
                            /\ UNCHANGED << bin, dl >>
                       ELSE /\ bin' = createWriteStream(bin, expectedBinary.filename)
                            /\ dl' = [dest |-> expectedBinary.filename, hops |-> 0,
                                      url |-> ReleaseUrl, response |-> NoResponse]
                            /\ calls' = [calls EXCEPT !.verifierNew = @ + 1,
                                                      !.verify = @ + nverify,
                                                      !.fetch = @ + 1,
                                                      !.requests = @ + 1]
                            /\ pc' = "downloading"
                            /\ UNCHANGED results
    /\ UNCHANGED << clock, cache, other, gen, license, loaded, runtime, env, keySources, host, manifestFile, bin0, isCI, compat, exitCode >>

\* the promise of downloadFile rejects: ensureBinaryAvailable throws, the
\* catch block of Gate 2 records the error
DownloadRejects(kind, status, response) ==
    /\ GateFails("Binary Availability", kind, "", status)
    /\ dl' = [NoDownload EXCEPT !.response = response]

\* the write stream of line 65 cannot open the destination (EACCES, EISDIR,
\* ETXTBSY, a read-only file system) and emits 'error' on a later tick.  Its
\* only 'error' listener is attached at line 82, inside the response
\* callback and for status 200, so the event has no listener: Node.js throws
\* it as an uncaught exception and the process ends with status 1 while
\* runSecurityGates is still awaiting.  The file was neither created nor
\* truncated: the destination is as the attempt found it.
DownloadOpenError ==
    /\ pc = "downloading"
    /\ dl.hops = 0
    /\ bin' = [bin EXCEPT ![dl.dest] = bin0[dl.dest]]
    /\ dl' = NoDownload
    /\ pc' = "crashed"
    /\ exitCode' = 1
    /\ UNCHANGED << clock, cache, other, gen, license, loaded, runtime, env, keySources, host, manifestFile, bin0, isCI, results,
                    verifier, calls, lastVerify, gateLog, compat >>

\* https.get(...).on('error', reject)
DownloadConnectionError ==
    /\ pc = "downloading"
    /\ DownloadRejects("connection error", "", NoResponse)
    /\ UNCHANGED << clock, cache, other, gen, license, loaded, runtime, env, keySources, host, manifestFile, bin, bin0, isCI, verifier,
                    calls, lastVerify, gateLog, compat, exitCode >>

\* status 301/302 with a location header: downloadFile calls itself,
\* which opens the destination again and issues the next request
DownloadRedirect ==
    /\ pc = "downloading"
    /\ dl.hops < MaxRedirects
    /\ bin' = createWriteStream(bin, dl.dest)
    /\ \E status \in RedirectStatuses :
          dl' = [dl EXCEPT !.hops = @ + 1, !.url = Location(@),
                           !.response = Response(status, TRUE)]
    /\ calls' = [calls EXCEPT !.requests = @ + 1]
    /\ UNCHANGED << clock, cache, other, gen, license, loaded, runtime, env, keySources, host, manifestFile, bin0, isCI, pc, results,
                    verifier, lastVerify, gateLog, compat, exitCode >>

\* status 301/302 without a location header
DownloadRedirectWithoutLocation ==
    /\ pc = "downloading"
    /\ \E status \in RedirectStatuses :
          DownloadRejects("Redirect without location header", "", Response(status, FALSE))
    /\ UNCHANGED << clock, cache, other, gen, license, loaded, runtime, env, keySources, host, manifestFile, bin, bin0, isCI, verifier,
                    calls, lastVerify, gateLog, compat, exitCode >>

\* any other status than 200, line 75: `HTTP ${statusCode}`, whether or not
\* the response has a location header
DownloadHttpError ==
    /\ pc = "downloading"
    /\ \E status \in OtherStatuses, location \in BOOLEAN :
          /\ location => status = "307"
          /\ DownloadRejects("HTTP status", status, Response(status, location))
    /\ UNCHANGED << clock, cache, other, gen, license, loaded, runtime, env, keySources, host, manifestFile, bin, bin0, isCI, verifier,
                    calls, lastVerify, gateLog, compat, exitCode >>

\* status 200, response.pipe(file), 'finish': the body is on disk
DownloadFinish ==
    /\ pc = "downloading"
    /\ \E body \in {"real", "tampered", "stub"} :
          bin' = [bin EXCEPT ![dl.dest] = File(body, @.exec)]
    /\ dl' = [dl EXCEPT !.response = Response("200", FALSE)]
    /\ pc' = "downloaded"
    /\ UNCHANGED << clock, cache, other, gen, license, loaded, runtime, env, keySources, host, manifestFile, bin0, isCI, results, verifier,
                    calls, lastVerify, gateLog, compat, exitCode >>

\* variant: the clean-up after a write error empties bin/
DownloadWriteError_EmptiesDirectory ==
    /\ pc = "downloading"
    /\ bin' = [n \in DOMAIN bin |-> NoFile]
    /\ DownloadRejects("write error", "", Response("200", FALSE))
    /\ UNCHANGED << clock, cache, other, gen, license, loaded, runtime, env, keySources, host, manifestFile, bin0, isCI, verifier,
                    calls, lastVerify, gateLog, compat, exitCode >>

\* status 200, the write stream emits 'error': fs.unlink is started and the
\* promise rejects at once, so the partial file may or may not be gone when
\* the caller sees the failure
DownloadWriteError ==
    /\ pc = "downloading"
    /\ \/ bin' = [bin EXCEPT ![dl.dest] = NoFile]
       \/ bin' = [bin EXCEPT ![dl.dest] = File("partial", @.exec)]
    /\ DownloadRejects("write error", "", Response("200", FALSE))
    /\ UNCHANGED << clock, cache, other, gen, license, loaded, runtime, env, keySources, host, manifestFile, bin0, isCI, verifier,
                    calls, lastVerify, gateLog, compat, exitCode >>

\* status 200, response.pipe(file), then the body stops before its end: the
\* connection is dropped or the server stalls.  The response has no 'error',
\* 'aborted' or 'close' listener and the request no timeout; pipe() ends the
\* file only on the 'end' of the response, so neither 'finish' nor 'error'
\* of the file is emitted and the promise of downloadFile never settles.
\* What was received is on disk.
DownloadBodyInterrupted ==
    /\ pc = "downloading"
    /\ \E received \in {"empty", "partial"} :
          bin' = [bin EXCEPT ![dl.dest] = File(received, @.exec)]
    /\ dl' = [dl EXCEPT !.response = Response("200", FALSE)]
    /\ pc' = "bodyPending"
    /\ UNCHANGED << clock, cache, other, gen, license, loaded, runtime, env, keySources, host, manifestFile, bin0, isCI, results, verifier,
                    calls, lastVerify, gateLog, compat, exitCode >>

\* downloadFile resolved: chmod 0o755 unless on Windows, then the second
\* verifyCurrentPlatform of ensureBinaryAvailable (same verifier)
Gate2VerifyDownloaded ==
    /\ pc = "downloaded"
    /\ LET dir == IF host.platform # "win32"
                  THEN [bin EXCEPT ![dl.dest].exec = TRUE]
                  ELSE bin
           verify == verifyCurrentPlatform(verifier, manifestFile, host, dir)
       IN
       /\ bin' = dir
       /\ calls' = [calls EXCEPT !.fetchOk = @ + 1, !.verify = @ + 1]
       /\ lastVerify' = [called |-> TRUE, manifestPath |-> verifier.manifestPath,
                         file |-> dir[dl.dest], result |-> verify]
       /\ IF ~verify.ok
          THEN GateFails("Binary Availability", verify.error, verify.expected, verify.actual)
          ELSE IF ~verify.verified
          THEN GateFails("Binary Availability", "Downloaded binary failed verification", "", "")
          ELSE /\ results' = [results EXCEPT !.binaryAvailable = dl.dest]
               /\ pc' = "gate3"
    /\ dl' = NoDownload
    /\ UNCHANGED << clock, cache, other, gen, license, loaded, runtime, env, keySources, host, manifestFile, bin0, isCI, verifier,
                    gateLog, compat, exitCode >>

\* Gate 3: BinaryIntegrityVerifier.quickVerify()
Gate3BinaryIntegrity ==
    /\ pc = "gate3"
    /\ gateLog' = Append(gateLog, "binaryIntegrity")
    /\ calls' = [calls EXCEPT !.verifierNew = @ + 1, !.verify = @ + 1]
    /\ LET binaryResult == quickVerify(env, manifestFile, host, bin, Undefined) IN
       /\ lastVerify' = [called |-> TRUE, manifestPath |-> DefaultManifestPath,
                         file |-> SeenFile(manifestFile, host, bin),
                         result |-> binaryResult]
       /\ IF binaryResult.ok
          THEN /\ results' = [results EXCEPT
                     !.binaryIntegrity = binaryResult,
                     !.warnings = IF binaryResult.isPlaceholder
                                  THEN Append(@, "Using development placeholder binary")
                                  ELSE @,
                     !.overall = TRUE]
               /\ pc' = "gatesReturned"
          ELSE GateFails("Binary Integrity", binaryResult.error,
                         binaryResult.expected, binaryResult.actual)
    /\ UNCHANGED << clock, cache, other, gen, license, loaded, runtime, env, keySources, host, manifestFile, bin, bin0, isCI, verifier,
                    dl, compat, exitCode >>

-----------------------------------------------------------------------------
(* secure-postinstall.js: run() after runSecurityGates *)

\* run(), lines 358-361: the gates did not pass
RunExitOnGateFailure ==
    /\ pc = "gatesReturned"
    /\ ~results.overall
    /\ exitCode' = 1
    /\ pc' = "exited"
    /\ UNCHANGED << clock, cache, other, gen, license, loaded, runtime, env, keySources, host, manifestFile, bin, bin0, isCI, results,
                    verifier, dl, calls, lastVerify, gateLog, compat >>

checkNodeVersion(major) == major >= MinNodeMajor

checkPlatform(h) ==
    h.platform \in {"win32", "darwin", "linux"} /\ h.arch \in {"x64", "arm64"}

\* variant: the permissions check is not looked at
hasIssues_IgnorePermissions(c) == ~c.nodeVersion \/ ~c.platform

\* run(), line 366: some compatibility check did not pass
hasIssues(c) == ~c.nodeVersion \/ ~c.platform \/ ~c.permissions

\* the files of bin/ whose name includes 'mcp-optimizer'
BinEntries(dir) == {f \in DOMAIN dir : dir[f].exists}

\* runCompatibilityChecks and the hasIssues test of run().  The outcomes of
\* the file system calls of checkPermissions are inputs: dirOk (mkdir,
\* access and readdir of bin/), readable (access R_OK of the entry found),
\* chmodOk (chmod of an entry that lacks the execute bit).
RunCompatibilityChecks ==
    /\ pc = "gatesReturned"
    /\ results.overall
    /\ ~isCI
    /\ \E major \in NodeMajors, dirOk \in BOOLEAN, readable \in BOOLEAN, chmodOk \in BOOLEAN :
       \E found \in IF BinEntries(bin) = {} THEN {"none"} ELSE BinEntries(bin) :
          LET needChmod == /\ found # "none"
                           /\ host.platform # "win32"
                           /\ ~bin[found].exec
              permOk == /\ dirOk
                        /\ (found # "none" => readable)
                        /\ (needChmod => chmodOk)
              res == [ran |-> TRUE,
                      evaluated |-> {"nodeVersion", "platform", "permissions"},
                      nodeVersion |-> checkNodeVersion(major),
                      platform |-> checkPlatform(host),
                      permissions |-> permOk]
          IN
          /\ bin' = IF dirOk /\ readable /\ needChmod /\ chmodOk
                    THEN [bin EXCEPT ![found].exec = TRUE]
                    ELSE bin
          /\ compat' = res
          /\ calls' = [calls EXCEPT !.compat = @ + 1]
          /\ IF hasIssues(res)
             THEN exitCode' = 1 /\ pc' = "exited"
             ELSE exitCode' = exitCode /\ pc' = "postinstall"
    /\ UNCHANGED << clock, cache, other, gen, license, loaded, runtime, env, keySources, host, manifestFile, bin0, isCI, results,
                    verifier, dl, lastVerify, gateLog >>

\* run(), line 364: compatibility checks are not run in CI
RunSkipCompatibility ==
    /\ pc = "gatesReturned"
    /\ results.overall
    /\ isCI
    /\ pc' = "postinstall"
    /\ UNCHANGED << clock, cache, other, gen, license, loaded, runtime, env, keySources, host, manifestFile, bin, bin0, isCI, results,
                    verifier, dl, calls, lastVerify, gateLog, compat, exitCode >>

\* runPostInstallTasks and showSuccessMessage: the attempt succeeded
RunPostInstallTasks ==
    /\ pc = "postinstall"
    /\ calls' = [calls EXCEPT !.postInstall = @ + 1]
    /\ exitCode' = 0
    /\ pc' = "done"
    /\ UNCHANGED << clock, cache, other, gen, license, loaded, runtime, env, keySources, host, manifestFile, bin, bin0, isCI, results,
                    verifier, dl, lastVerify, gateLog, compat >>

-----------------------------------------------------------------------------
(* Initial states: the world an installer is constructed in *)

BaseEnv == [CI |-> Unset, GITHUB_ACTIONS |-> Unset, TRAVIS |-> Unset, CIRCLECI |-> Unset,
            JENKINS_URL |-> Unset, OPTIMIZER_SKIP_SECURITY |-> Unset,
            NODE_ENV |-> Unset, MCP_DEV_MODE |-> Unset]

\* every combination of the variables detectCIEnvironment reads
CIEnvs ==
    [CI : {Unset, "true", "1", "false"},
     GITHUB_ACTIONS : {Unset, "true", "1"},
     TRAVIS : {Unset, "true"},
     CIRCLECI : {Unset, "true"},
     JENKINS_URL : {Unset, "", "http://ci"},
     OPTIMIZER_SKIP_SECURITY : {Unset, "true", "1"},
     NODE_ENV : {Unset},
     MCP_DEV_MODE : {Unset}]

\* the development-mode variables, without and with a strict CI
DevEnvs ==
    {[e EXCEPT !.NODE_ENV = d[1], !.MCP_DEV_MODE = d[2]] :
        e \in {BaseEnv, [BaseEnv EXCEPT !.CI = "true", !.GITHUB_ACTIONS = "true"]},
        d \in {<<Unset, Unset>>, <<"development", Unset>>, <<"production", "true">>}}

OnlyEnvKey(k) == [env |-> k, config |-> NoKey, dotenv |-> NoKey, home |-> TRUE]

KeySourceSets ==
    {OnlyEnvKey(ProKey), OnlyEnvKey(TestKey), OnlyEnvKey(NoKey),
     [env |-> NoKey, config |-> ProKey, dotenv |-> TestKey, home |-> TRUE]}

Hosts ==
    {[platform |-> "linux", arch |-> "x64"],
     [platform |-> "win32", arch |-> "x64"],
     [platform |-> "sunos", arch |-> "x64"],
     [platform |-> "linux", arch |-> "ia32"]}

EntryShapes ==
    [sha256 : {SHA256("real"), SHA256("stub"), Null},
     missing : BOOLEAN,
     dev_placeholder : BOOLEAN]

Entry(k, shape) ==
    [filename |-> FilenameOf(k),
     sha256 |-> shape.sha256,
     size |-> IF shape.sha256 = SHA256("real") THEN FileSize("real")
              ELSE IF shape.sha256 = SHA256("stub") THEN FileSize("stub")
              ELSE 0,
     missing |-> shape.missing,
     dev_placeholder |-> shape.dev_placeholder]

Manifest(keys, shape) ==
    [readable |-> TRUE, truthy |-> TRUE, hasBinaries |-> TRUE,
     binaries |-> [k \in keys |-> Entry(k, shape)]]

Manifests ==
    {NoManifest} \cup
    {Manifest(keys, shape) : keys \in {{"linux-x64"}, PlatformKeys}, shape \in EntryShapes}

InitialFiles ==
    {NoFile, File("real", TRUE), File("real", FALSE), File("tampered", TRUE),
     File("stub", FALSE), File("bigstub", FALSE), File("empty", FALSE)}

\* the artifact file of the host, when the host has one of the five keys
ArtifactName(h) ==
    IF detectPlatform(h) \in PlatformKeys
    THEN FilenameOf(detectPlatform(h))
    ELSE FilenameOf("linux-x64")

BinWith(name, f) == [n \in FileNames |-> IF n = name THEN f ELSE NoFile]

\* the state after `new SecurePostInstaller()`
Constructed ==
    /\ bin0 = bin
    /\ isCI = detectCIEnvironment(env)
    /\ pc = "constructed"
    /\ results = NewResults(isCI)
    /\ verifier = NewVerifier(env)
    /\ dl = NoDownload
    /\ calls = NoCalls
    /\ lastVerify = NoVerify
    /\ gateLog = << >>
    /\ compat = NoCompat
    /\ exitCode = -1
    /\ runtime = NoRuntime
    /\ loaded = NoLoad
    /\ license = NoLicense
    /\ gen = NoRun
    /\ other = "idle"
    /\ cache = NoCache
    /\ clock = 0

\* all CI environments, a plain world
InitCI ==
    /\ env \in CIEnvs
    /\ keySources \in {OnlyEnvKey(ProKey), OnlyEnvKey(NoKey)}
    /\ host = [platform |-> "linux", arch |-> "x64"]
    /\ manifestFile = Manifest(PlatformKeys,
                               [sha256 |-> SHA256("real"), missing |-> FALSE,
                                dev_placeholder |-> FALSE])
    /\ \E f \in {NoFile, File("real", TRUE)} : bin = BinWith(ArtifactName(host), f)
    /\ Constructed

\* all worlds, a few environments
InitWorld ==
    /\ env \in DevEnvs
    /\ keySources \in KeySourceSets
    /\ host \in Hosts
    /\ manifestFile \in Manifests
    /\ \E f \in InitialFiles : bin = BinWith(ArtifactName(host), f)
    /\ Constructed

\* the size a manifest entry records: none, the size of the real binary,
\* a size that is not the size of any file here
RecordedSizes == {0, FileSize("real"), FileSize("real") + 1}

\* a real entry whose recorded size is independent of its digest
SizedManifest(sha, size) ==
    [readable |-> TRUE, truthy |-> TRUE, hasBinaries |-> TRUE,
     binaries |-> [k \in PlatformKeys |->
                     [Entry(k, [sha256 |-> sha, missing |-> FALSE,
                                dev_placeholder |-> FALSE])
                         EXCEPT !.size = size]]]

\* real entries with every recorded size, a valid key, every file
InitSized ==
    /\ env \in DevEnvs
    /\ keySources = OnlyEnvKey(ProKey)
    /\ host = [platform |-> "linux", arch |-> "x64"]
    /\ \E sha \in {SHA256("real"), SHA256("stub")}, size \in RecordedSizes :
          manifestFile = SizedManifest(sha, size)
    /\ \E f \in InitialFiles : bin = BinWith(ArtifactName(host), f)
    /\ Constructed

\* manifests that parse but are not what the generator writes: no binaries
\* object, entries without filename, entries without sha256
MalformedManifests ==
    {[readable |-> TRUE, truthy |-> TRUE, hasBinaries |-> FALSE, binaries |-> << >>]}
    \cup
    {[readable |-> TRUE, truthy |-> TRUE, hasBinaries |-> TRUE,
      binaries |-> [k \in PlatformKeys |->
                      [Entry(k, [sha256 |-> SHA256("real"), missing |-> flags[1],
                                 dev_placeholder |-> flags[2]])
                          EXCEPT !.filename = Undefined]]] :
        flags \in {<<FALSE, FALSE>>, <<FALSE, TRUE>>, <<TRUE, TRUE>>}}
    \cup
    {Manifest(PlatformKeys, [sha256 |-> Undefined, missing |-> flags[1],
                             dev_placeholder |-> flags[2]]) :
        flags \in BOOLEAN \X BOOLEAN}

\* malformed manifests, a valid key, every file
InitMalformed ==
    /\ env \in DevEnvs
    /\ keySources = OnlyEnvKey(ProKey)
    /\ host = [platform |-> "linux", arch |-> "x64"]
    /\ manifestFile \in MalformedManifests
    /\ \E f \in InitialFiles : bin = BinWith(ArtifactName(host), f)
    /\ Constructed

\* every key in the environment variable, a few in the two files, with and
\* without a home directory in the environment; a plain world otherwise
AllKeySources ==
    [env : Keys,
     config : {NoKey, BlankKey, ProKey, LegacyKey},
     dotenv : {NoKey, LiveKey, TestKey},
     home : BOOLEAN]

InitKeys ==
    /\ env = BaseEnv
    /\ keySources \in AllKeySources
    /\ host = [platform |-> "linux", arch |-> "x64"]
    /\ manifestFile = Manifest(PlatformKeys,
                               [sha256 |-> SHA256("real"), missing |-> FALSE,
                                dev_placeholder |-> FALSE])
    /\ bin = BinWith(ArtifactName(host), File("real", TRUE))
    /\ Constructed

\* values of process.platform and process.arch, those of the two maps of
\* detectPlatform and others ('unsupported' is the one test-security.js sets)
AllHosts ==
    [platform : {"win32", "darwin", "linux", "sunos", "freebsd", "unsupported"},
     arch : {"x64", "x86_64", "arm64", "aarch64", "ia32", "arm"}]

\* every host, a plain world otherwise
InitHosts ==
    /\ env = BaseEnv
    /\ keySources = OnlyEnvKey(ProKey)
    /\ host \in AllHosts
    /\ manifestFile = Manifest(PlatformKeys,
                               [sha256 |-> SHA256("real"), missing |-> FALSE,
                                dev_placeholder |-> FALSE])
    /\ bin = BinWith(ArtifactName(host), File("real", TRUE))
    /\ Constructed

\* bin/ as the package ships it or as earlier installations left it: the
\* artifacts of other platforms next to the host's own, with or without the
\* execute bit; a plain world otherwise
InitShipped ==
    /\ env = BaseEnv
    /\ keySources = OnlyEnvKey(ProKey)
    /\ host \in {[platform |-> "linux", arch |-> "x64"], [platform |-> "win32", arch |-> "x64"]}
    /\ manifestFile = Manifest(PlatformKeys,
                               [sha256 |-> SHA256("real"), missing |-> FALSE,
                                dev_placeholder |-> FALSE])
    /\ \E f \in {NoFile, File("real", TRUE), File("real", FALSE), File("tampered", FALSE)},
          others \in SUBSET (FileNames \ {ArtifactName(host)}), x \in BOOLEAN :
          bin = [n \in FileNames |->
                   IF n = ArtifactName(host) THEN f
                   ELSE IF n \in others THEN File("real", x) ELSE NoFile]
    /\ Constructed

Init ==
    InitCI \/ InitWorld \/ InitSized \/ InitMalformed \/ InitKeys \/ InitHosts \/ InitShipped

Next ==
    \/ RunSecurityGatesSkipped
    \/ Gate1ApiKey
    \/ Gate2EnsureBinaryAvailable
    \/ DownloadOpenError
    \/ DownloadConnectionError
    \/ DownloadRedirect
    \/ DownloadRedirectWithoutLocation
    \/ DownloadHttpError
    \/ DownloadFinish
    \/ DownloadWriteError
    \/ DownloadBodyInterrupted
    \/ Gate2VerifyDownloaded
    \/ Gate3BinaryIntegrity
    \/ RunExitOnGateFailure
    \/ RunCompatibilityChecks
    \/ RunSkipCompatibility
    \/ RunPostInstallTasks

Spec == Init /\ [][Next]_vars

-----------------------------------------------------------------------------
(* The download against a server that never stops redirecting *)

\* status 301/302 with a location header once the counters of the model
\* are at their bound: downloadFile has no hop limit and follows the
\* redirect as before (lines 68-73); hops and the request count stay at the
\* bound
DownloadRedirectBeyondBound ==
    /\ pc = "downloading"
    /\ dl.hops = MaxRedirects
    /\ bin' = createWriteStream(bin, dl.dest)
    /\ \E status \in RedirectStatuses :
          dl' = [dl EXCEPT !.url = Location(@), !.response = Response(status, TRUE)]
    /\ UNCHANGED << clock, cache, other, gen, license, loaded, runtime, env, keySources, host, manifestFile, bin0, isCI, pc, results,
                    verifier, calls, lastVerify, gateLog, compat, exitCode >>

\* a plain world: a supported host, a real manifest entry
InitLive ==
    /\ env \in {BaseEnv, [BaseEnv EXCEPT !.CI = "true", !.GITHUB_ACTIONS = "true"]}
    /\ keySources \in {OnlyEnvKey(ProKey), OnlyEnvKey(NoKey)}
    /\ host \in {[platform |-> "linux", arch |-> "x64"], [platform |-> "win32", arch |-> "x64"]}
    /\ manifestFile = Manifest(PlatformKeys,
                               [sha256 |-> SHA256("real"), missing |-> FALSE,
                                dev_placeholder |-> FALSE])
    /\ \E f \in InitialFiles : bin = BinWith(ArtifactName(host), f)
    /\ Constructed

NextLive ==
    \/ Next
    \/ DownloadRedirectBeyondBound

\* the installer keeps running and the server keeps answering: a step that
\* is possible is eventually taken
SpecLive == InitLive /\ [][NextLive]_vars /\ WF_vars(NextLive)

-----------------------------------------------------------------------------
(* The package beyond the installer: the verifier called on its own *)

\* BinaryIntegrityVerifier.quickVerify(binDir, manifestPath) called outside
\* the installer (the `quick` command of the verifier, test-security.js):
\* the result is returned or the error rethrown; when it fails a second
\* verifier is built for the platform report; the command exits with 1
StandaloneQuickVerify ==
    /\ pc = "constructed"
    /\ \E manifestPath \in {Undefined, NonexistentManifestPath} :
       LET v == NewVerifierAt(env, manifestPath)
           r == quickVerify(env, manifestFile, host, bin, manifestPath)
       IN
       /\ lastVerify' = [called |-> TRUE, manifestPath |-> v.manifestPath,
                         file |-> SeenFile(loadManifest(v, manifestFile), host, bin),
                         result |-> r]
       /\ calls' = [calls EXCEPT !.verifierNew = @ + (IF r.ok THEN 1 ELSE 2),
                                 !.verify = @ + 1]
       /\ exitCode' = IF r.ok THEN 0 ELSE 1
    /\ pc' = "quickVerified"
    /\ UNCHANGED << clock, cache, other, gen, license, loaded, runtime, env, keySources, host, manifestFile, bin, bin0, isCI,
                    results, verifier, dl, gateLog, compat >>

-----------------------------------------------------------------------------
(* lib/binary-manager.js: the runtime that starts the installed binary *)

bmPlatform(p) ==
    CASE p = "win32"  -> "windows"
      [] p = "darwin" -> "macos"
      [] p = "linux"  -> "linux"
      [] OTHER        -> p

\* BinaryManager.detectPlatform
platformInfo(h) ==
    [platform |-> bmPlatform(h.platform),
     arch |-> normalizedArch(h.arch),
     binaryName |-> "mcp-optimizer-" \o bmPlatform(h.platform) \o "-"
                    \o normalizedArch(h.arch)
                    \o (IF h.platform = "win32" THEN ".exe" ELSE ""),
     isLinux |-> h.platform = "linux",
     isMac |-> h.platform = "darwin"]

\* the platform and the architecture a file name of bin/ contains
NameParts(name) ==
    CASE name = "mcp-optimizer-windows-x64.exe" -> [platform |-> "windows", arch |-> "x64"]
      [] name = "mcp-optimizer-macos-x64"       -> [platform |-> "macos", arch |-> "x64"]
      [] name = "mcp-optimizer-macos-arm64"     -> [platform |-> "macos", arch |-> "arm64"]
      [] name = "mcp-optimizer-linux-x64"       -> [platform |-> "linux", arch |-> "x64"]
      [] OTHER                                  -> [platform |-> "linux", arch |-> "arm64"]

\* checkBinary: fs.access F_OK and X_OK (X_OK is F_OK on Windows), fs.stat
checkBinary(dir, name, h) ==
    /\ name \in DOMAIN dir
    /\ dir[name].exists
    /\ (dir[name].exec \/ h.platform = "win32")

calculateCompatibility(name, info) ==
    (IF NameParts(name).platform = info.platform THEN 10 ELSE 0)
    + (IF NameParts(name).arch = info.arch THEN 5 ELSE 0)
    + (IF info.isLinux /\ NameParts(name).platform = "linux" THEN 8 ELSE 0)
    + (IF info.isMac /\ NameParts(name).platform = "macos" THEN 8 ELSE 0)

\* findCompatibleBinaries: the other binaries of bin/ that are available and
\* score above 0
compatibleBinaries(dir, h) ==
    {n \in DOMAIN dir :
        /\ n # platformInfo(h).binaryName
        /\ checkBinary(dir, n, h)
        /\ calculateCompatibility(n, platformInfo(h)) > 0}

\* discoverBinary: the names it may select: the exact match if it is
\* available, else the compatible binaries with the highest score, else none
discoverBinary(dir, h) ==
    LET exact == platformInfo(h).binaryName
        alts  == compatibleBinaries(dir, h)
    IN  IF checkBinary(dir, exact, h) THEN {exact}
        ELSE {n \in alts : \A o \in alts :
                 calculateCompatibility(n, platformInfo(h))
                     >= calculateCompatibility(o, platformInfo(h))}

\* after the installation a file of bin/ is modified (by another process)
ArtifactModified ==
    /\ pc = "done"
    /\ \E n \in DOMAIN bin :
          /\ bin[n].exists
          /\ bin[n].content # "tampered"
          /\ bin' = [bin EXCEPT ![n].content = "tampered"]
    /\ UNCHANGED << clock, cache, other, gen, license, loaded, runtime, env, keySources, host, manifestFile, bin0, isCI, pc, results,
                    verifier, dl, calls, lastVerify, gateLog, compat, exitCode >>

\* BinaryManager.start / executeBinary: discoverBinary, then spawn of the
\* selected binary, or executeFallback with the strategy
\* determineFallbackStrategy found (python3, python or none).  A
\* discoverBinary that finds a binary returns before line 90 and leaves
\* fallbackStrategy as it was: null, or what an earlier initialize() that
\* found no binary had set (prior).  The server is started by a process of
\* its own: `check-license` returns from handleCLI without starting it.
ExecuteBinary ==
    /\ pc = "done"
    /\ ~license.checked
    /\ LET selected == discoverBinary(bin, host) IN
       IF selected # {}
       THEN \E n \in selected, prior \in {Null, "python3", "error"} :
               runtime' = [NoRuntime EXCEPT !.started = TRUE, !.via = "binary",
                                            !.name = n, !.file = bin[n],
                                            !.fallbackStrategy = prior]
       ELSE \E fallbackStrategy \in {"python3", "python", "error"} :
               runtime' = [NoRuntime EXCEPT !.started = fallbackStrategy # "error",
                                            !.via = fallbackStrategy,
                                            !.fallbackStrategy = fallbackStrategy]
    /\ pc' = "running"
    /\ UNCHANGED << clock, cache, other, gen, license, loaded, env, keySources, host, manifestFile, bin, bin0, isCI, results,
                    verifier, dl, calls, lastVerify, gateLog, compat, exitCode >>

\* executeFallback: how its promise settles.  'error' throws; any other
\* strategy is passed to spawn, which throws a TypeError for null; spawned:
\* the interpreter started and exited ('exit'), else 'error' was emitted
executeFallback(fallbackStrategy, spawned) ==
    IF fallbackStrategy = "error" THEN "rejected: No execution method available"
    ELSE IF fallbackStrategy = Null THEN "rejected: TypeError"
    ELSE IF spawned THEN "resolved: fallback"
    ELSE "rejected: Fallback execution failed"

\* the promise of executeBinary settles: the binary exits with 0, or it
\* exits with another code or cannot be spawned and executeFallback is
\* called (lines 232-246); without a binary executeFallback was called at
\* line 212
ExecutionSettles ==
    /\ pc = "running"
    /\ \E exit \in {"0", "1", "spawn error"}, spawned \in BOOLEAN :
          runtime' = IF runtime.via # "binary"
                     THEN [runtime EXCEPT
                              !.settled = executeFallback(runtime.fallbackStrategy, spawned)]
                     ELSE IF exit = "0"
                     THEN [runtime EXCEPT !.exit = exit, !.settled = "resolved: binary"]
                     ELSE [runtime EXCEPT
                              !.exit = exit,
                              !.settled = executeFallback(runtime.fallbackStrategy, spawned)]
    /\ pc' = "ended"
    /\ UNCHANGED << clock, cache, other, gen, license, loaded, env, keySources, host, manifestFile, bin, bin0, isCI, results,
                    verifier, dl, calls, lastVerify, gateLog, compat, exitCode >>

\* manifest.json disappears between Gate 2 and Gate 3 (the verifier of
\* Gate 3 is a fresh one and reads the file again)
ManifestRemoved ==
    /\ pc = "gate3"
    /\ manifestFile.readable
    /\ manifestFile' = NoManifest
    /\ UNCHANGED << clock, cache, other, gen, license, loaded, runtime, env, keySources, host, bin, bin0, isCI, pc, results,
                    verifier, dl, calls, lastVerify, gateLog, compat, exitCode >>

\* Usage of the package at run time: `check-license` (index.js handleCLI)
\* and lib/license-manager.js

\* length of the string as stored, untrimmed
rawLength(key) == key.length + (IF key.ws THEN 2 ELSE 0)

\* SimplifiedLicenseManager.isValidKeyFormat
licenseKeyFormat(key) ==
    /\ key # NoKey
    /\ key.skLocal /\ ~key.ws
    /\ ("-basic-" \in key.marks \/ "-pro-" \in key.marks)
    /\ rawLength(key) >= 25

\* what ~/.mcp-license-cache.json holds for the key: nothing usable, a
\* validation with valid = true, one with valid = false
CacheStates == {"none", "valid", "invalid"}

\* SimplifiedLicenseManager.validateLicense: reads OPTIMIZER_API_KEY only
validateLicense(src, cached) ==
    LET apiKey == src.env IN
    IF apiKey = NoKey
    THEN [valid |-> FALSE, type |-> "",
          error |-> "No API key found in OPTIMIZER_API_KEY environment variable"]
    ELSE IF ~licenseKeyFormat(apiKey)
    THEN [valid |-> FALSE, type |-> "", error |-> "Invalid API key format"]
    ELSE IF cached = "valid"
    THEN [valid |-> TRUE, type |-> "cached", error |-> ""]
    ELSE [valid |-> TRUE, error |-> "",
          type |-> IF "-pro-" \in apiKey.marks THEN "local_pro" ELSE "local_basic"]

\* `check-license`: checkLicense() prints the result and returns, handleCLI
\* returns, the process ends with status 0.  Run on its own, or after an
\* installation has finished or failed.
CheckLicense ==
    /\ pc \in {"constructed", "done", "exited"}
    /\ ~license.checked
    /\ \E cached \in CacheStates :
       LET result == validateLicense(keySources, cached) IN
       license' = [checked |-> TRUE, valid |-> result.valid, error |-> result.error,
                   type |-> result.type,
                   output |-> IF result.valid THEN "License valid"
                              ELSE "License invalid or missing",
                   exit |-> 0]
    /\ pc' = IF pc = "constructed" THEN "licenseChecked" ELSE pc
    /\ UNCHANGED << clock, cache, other, gen, loaded, runtime, env, keySources, host, manifestFile, bin, bin0, isCI,
                    results, verifier, dl, calls, lastVerify, gateLog, compat, exitCode >>

NextPackage ==
    \/ Next
    \/ CheckLicense
    \/ StandaloneQuickVerify
    \/ ManifestRemoved
    \/ ArtifactModified
    \/ ExecuteBinary
    \/ ExecutionSettles

SpecPackage == Init /\ [][NextPackage]_vars

-----------------------------------------------------------------------------
(* lib/binary-integrity-verifier.js: one verifier object and the manifest
   file under it *)

\* loadManifest calls the model follows on one run
MaxLoads == 3

\* manifest.json holding the JSON text `null`: JSON.parse returns null
FalsyManifest == [readable |-> TRUE, truthy |-> FALSE, hasBinaries |-> FALSE,
                  binaries |-> << >>]

\* the contents manifest.json takes here: absent, `null`, `{}`, and two
\* generated manifests that differ in the recorded digest
StoredManifests ==
    {NoManifest, FalsyManifest,
     [readable |-> TRUE, truthy |-> TRUE, hasBinaries |-> FALSE, binaries |-> << >>],
     Manifest(PlatformKeys, [sha256 |-> SHA256("real"), missing |-> FALSE,
                             dev_placeholder |-> FALSE]),
     Manifest(PlatformKeys, [sha256 |-> SHA256("stub"), missing |-> FALSE,
                             dev_placeholder |-> TRUE])}

\* line 18: the file is read unless this.manifest is truthy
readsStorage(v) == ~v.manifest.truthy

\* verifier.loadManifest() on the instance held in `verifier`
VerifierLoadManifest ==
    /\ pc = "verifier"
    /\ loaded.calls < MaxLoads
    /\ LET reads == readsStorage(verifier)
           m == loadManifest(verifier, manifestFile)
       IN
       /\ verifier' = [verifier EXCEPT !.manifest = IF reads /\ m.readable THEN m ELSE @]
       /\ loaded' = [calls |-> loaded.calls + 1,
                     reads |-> loaded.reads + (IF reads THEN 1 ELSE 0),
                     onInstance |-> loaded.onInstance + 1,
                     threw |-> ~m.readable,
                     returned |-> m,
                     okBefore |-> loaded.okBefore \/ m.readable,
                     lastOk |-> IF m.readable THEN m ELSE loaded.lastOk]
    /\ UNCHANGED << clock, cache, other, gen, license, runtime, env, keySources, host, manifestFile, bin, bin0, isCI, pc,
                    results, dl, calls, lastVerify, gateLog, compat, exitCode >>

\* new BinaryIntegrityVerifier(manifestPath) replaces the instance
VerifierConstructed ==
    /\ pc = "verifier"
    /\ loaded.onInstance > 0
    /\ \E manifestPath \in {Undefined, NonexistentManifestPath} :
          verifier' = NewVerifierAt(env, manifestPath)
    /\ loaded' = [loaded EXCEPT !.onInstance = 0, !.okBefore = FALSE,
                                !.lastOk = NoManifest]
    /\ UNCHANGED << clock, cache, other, gen, license, runtime, env, keySources, host, manifestFile, bin, bin0, isCI, pc,
                    results, dl, calls, lastVerify, gateLog, compat, exitCode >>

\* manifest.json is rewritten or removed between two calls
ManifestFileWritten ==
    /\ pc = "verifier"
    /\ manifestFile' \in StoredManifests \ {manifestFile}
    /\ UNCHANGED << clock, cache, other, gen, license, loaded, runtime, env, keySources, host, bin, bin0, isCI, pc, results,
                    verifier, dl, calls, lastVerify, gateLog, compat, exitCode >>

InitVerifier ==
    /\ env \in {BaseEnv, [BaseEnv EXCEPT !.MCP_DEV_MODE = "true"]}
    /\ keySources = OnlyEnvKey(ProKey)
    /\ host = [platform |-> "linux", arch |-> "x64"]
    /\ manifestFile \in StoredManifests
    /\ bin = BinWith(ArtifactName(host), File("real", TRUE))
    /\ bin0 = bin
    /\ isCI = detectCIEnvironment(env)
    /\ pc = "verifier"
    /\ results = NewResults(isCI)
    /\ \E manifestPath \in {Undefined, NonexistentManifestPath} :
          verifier = NewVerifierAt(env, manifestPath)
    /\ dl = NoDownload
    /\ calls = NoCalls
    /\ lastVerify = NoVerify
    /\ gateLog = << >>
    /\ compat = NoCompat
    /\ exitCode = -1
    /\ runtime = NoRuntime
    /\ loaded = NoLoad
    /\ license = NoLicense
    /\ gen = NoRun
    /\ other = "idle"
    /\ cache = NoCache
    /\ clock = 0

NextVerifier ==
    \/ VerifierLoadManifest
    \/ VerifierConstructed
    \/ ManifestFileWritten

SpecVerifier == InitVerifier /\ [][NextVerifier]_vars

-----------------------------------------------------------------------------
(* secure-update/generate-manifest.js: the tool that writes manifest.json *)

\* generator runs the model follows
MaxRuns == 2

sha256File(f) == SHA256(f.content)

\* stats.mtime.toISOString()
MTime(f) == "mtime_" \o f.content

\* line 108: stats.size < 10000 && content.includes('placeholder')
scannedAsPlaceholder(f) == FileSize(f.content) < PlaceholderMaxSize /\ HasMarker(f.content)

\* assignment of properties to an object: the fields of upd are set, the
\* others kept
Assign(obj, upd) ==
    [f \in DOMAIN obj \cup DOMAIN upd |-> IF f \in DOMAIN upd THEN upd[f] ELSE obj[f]]

\* the entry generateDevManifest writes for a platform (lines 105-148).  A
\* property that is absent reads as false, a size or date of null as 0 or Null.
devEntry(k, f) ==
    IF ~f.exists
    THEN [filename |-> FilenameOf(k), sha256 |-> Null, size |-> 0, build_date |-> Null,
          verified |-> FALSE, missing |-> TRUE, is_primary |-> TRUE,
          dev_placeholder |-> TRUE]
    ELSE [filename |-> FilenameOf(k), sha256 |-> sha256File(f), size |-> FileSize(f.content),
          build_date |-> MTime(f), verified |-> ~scannedAsPlaceholder(f),
          missing |-> FALSE, is_primary |-> TRUE,
          dev_placeholder |-> scannedAsPlaceholder(f)]

\* generateDevManifest: the manifest built from bin/
devManifest(dir, now, commit) ==
    [readable |-> TRUE, truthy |-> TRUE, hasBinaries |-> TRUE,
     binaries |-> [k \in PlatformKeys |-> devEntry(k, dir[FilenameOf(k)])],
     build_date |-> now, build_commit |-> commit, dev_mode |-> TRUE]

\* updatePlatformEntry ends in process.exit(1): no binary file (212-215), no
\* manifest file (218-221), no entry (226-230); a manifest that does not
\* parse or parses to null throws, and main().catch exits with 1 (311-314)
updateFails(m, platform, f) ==
    \/ ~f.exists
    \/ ~m.readable
    \/ ~m.truthy
    \/ ~m.hasBinaries
    \/ platform \notin DOMAIN m.binaries

\* lines 237-245: the entry after the update (deleted flags read as false)
updatedEntry(entry, f, now) ==
    Assign(entry, [sha256 |-> sha256File(f), verified |-> TRUE,
                   size |-> FileSize(f.content), build_date |-> MTime(f),
                   last_updated |-> now, dev_placeholder |-> FALSE,
                   missing |-> FALSE])

\* variant: every entry is stamped with the date of the run
updatedManifest_StampsAll(m, platform, f, now, commit) ==
    Assign(m, [binaries |-> [k \in DOMAIN m.binaries |->
                               IF k = platform THEN updatedEntry(m.binaries[k], f, now)
                               ELSE Assign(m.binaries[k], [last_updated |-> now])],
               build_date |-> now, build_commit |-> commit])

\* lines 237-252: the manifest updatePlatformEntry writes back
updatedManifest(m, platform, f, now, commit) ==
    Assign(m, [binaries |-> [m.binaries EXCEPT
                               ![platform] = updatedEntry(@, f, now)],
               build_date |-> now, build_commit |-> commit])

\* the arguments of the tool
GenPlatforms == {"linux-x64", "win32-x64", "freebsd-x64"}
GenInputs == {NoFile, File("real", TRUE), File("tampered", TRUE), File("stub", FALSE),
              File("empty", FALSE)}
Commits == {"commit-a", "commit-b"}

\* node generate-manifest.js --dev-mode
GenerateDevManifest ==
    /\ pc = "generator"
    /\ gen.runs < MaxRuns
    /\ \E commit \in Commits :
       /\ manifestFile' = devManifest(bin, gen.runs + 1, commit)
       /\ gen' = [op |-> "dev", platform |-> "", input |-> NoFile, commit |-> commit,
                  exit |-> 0, before |-> manifestFile, runs |-> gen.runs + 1,
                  fromDev |-> TRUE]
    /\ UNCHANGED << clock, cache, other, license, loaded, runtime, env, keySources, host, bin, bin0, isCI, pc,
                    results, verifier, dl, calls, lastVerify, gateLog, compat, exitCode >>

\* node generate-manifest.js --platform <platform> --binary <path>
UpdatePlatformEntry ==
    /\ pc = "generator"
    /\ gen.runs < MaxRuns
    /\ \E platform \in GenPlatforms, f \in GenInputs, commit \in Commits :
       /\ manifestFile' = IF updateFails(manifestFile, platform, f) THEN manifestFile
                          ELSE updatedManifest(manifestFile, platform, f,
                                               gen.runs + 1, commit)
       /\ gen' = [op |-> "update", platform |-> platform, input |-> f, commit |-> commit,
                  exit |-> IF updateFails(manifestFile, platform, f) THEN 1 ELSE 0,
                  before |-> manifestFile, runs |-> gen.runs + 1,
                  fromDev |-> gen.fromDev]
    /\ UNCHANGED << clock, cache, other, license, loaded, runtime, env, keySources, host, bin, bin0, isCI, pc,
                    results, verifier, dl, calls, lastVerify, gateLog, compat, exitCode >>

\* the package with the manifest as it stands is verified on the host
\* (BinaryIntegrityVerifier.quickVerify)
VerifyGenerated ==
    /\ pc = "generator"
    /\ gen.runs > 0
    /\ lastVerify' = [called |-> TRUE, manifestPath |-> DefaultManifestPath,
                      file |-> SeenFile(manifestFile, host, bin),
                      result |-> quickVerify(env, manifestFile, host, bin, Undefined)]
    /\ pc' = "generatorVerified"
    /\ UNCHANGED << clock, cache, other, gen, license, loaded, runtime, env, keySources, host, manifestFile, bin,
                    bin0, isCI, results, verifier, dl, calls, gateLog, compat, exitCode >>

\* the directory the tool scans: every file at the host's name, a few at
\* another platform's
GenDirs ==
    {[n \in FileNames |->
        IF n = FilenameOf("linux-x64") THEN f1
        ELSE IF n = FilenameOf("win32-x64") THEN f2
        ELSE NoFile] :
     f1 \in {NoFile, File("real", TRUE), File("stub", FALSE), File("empty", FALSE)},
     f2 \in {NoFile, File("stub", FALSE)}}

InitGenerator ==
    /\ env \in {BaseEnv, [BaseEnv EXCEPT !.MCP_DEV_MODE = "true"]}
    /\ keySources = OnlyEnvKey(ProKey)
    /\ host = [platform |-> "linux", arch |-> "x64"]
    /\ manifestFile \in {NoManifest, FalsyManifest,
                         Manifest({"linux-x64"}, [sha256 |-> SHA256("real"),
                                                  missing |-> FALSE,
                                                  dev_placeholder |-> FALSE])}
    /\ bin \in GenDirs
    /\ bin0 = bin
    /\ isCI = detectCIEnvironment(env)
    /\ pc = "generator"
    /\ results = NewResults(isCI)
    /\ verifier = NewVerifier(env)
    /\ dl = NoDownload
    /\ calls = NoCalls
    /\ lastVerify = NoVerify
    /\ gateLog = << >>
    /\ compat = NoCompat
    /\ exitCode = -1
    /\ runtime = NoRuntime
    /\ loaded = NoLoad
    /\ license = NoLicense
    /\ gen = NoRun
    /\ other = "idle"
    /\ cache = NoCache
    /\ clock = 0

NextGenerator ==
    \/ GenerateDevManifest
    \/ UpdatePlatformEntry
    \/ VerifyGenerated

SpecGenerator == InitGenerator /\ [][NextGenerator]_vars

-----------------------------------------------------------------------------
(* Two installers on one bin/: the installer above, and the download of a
   second one (the same downloadFile, run by another process).  The second
   installer looked at bin/ when this one did and decided to fetch as this
   one did; there is no lock, so its steps are taken whatever this installer
   is doing. *)

\* downloadFile of the second installer, line 65: createWriteStream, at its
\* first request and again after each redirect it follows
OtherAttemptOpens ==
    /\ other \in {"idle", "writing"}
    /\ calls.fetch >= 1
    /\ pc \in {"downloading", "downloaded", "gate3", "gatesReturned", "postinstall"}
    /\ bin' = createWriteStream(bin, manifestFile.binaries[detectPlatform(host)].filename)
    /\ other' = "writing"
    /\ UNCHANGED << clock, cache, gen, license, loaded, runtime, env, keySources, host, manifestFile, bin0,
                    isCI, pc, results, verifier, dl, calls, lastVerify, gateLog, compat,
                    exitCode >>

\* the download of the second installer ends: 'finish' and chmod (lines
\* 81, 111-113), or an 'error' of its stream with the unlink done or not
\* (lines 82-85)
OtherAttemptSettles ==
    /\ other = "writing"
    /\ LET dest == manifestFile.binaries[detectPlatform(host)].filename IN
       \/ \E body \in {"real", "tampered"} :
             bin' = [bin EXCEPT ![dest] = File(body, host.platform # "win32" \/ @.exec)]
       \/ bin' = [bin EXCEPT ![dest] = NoFile]
       \/ bin' = [bin EXCEPT ![dest] = File("partial", @.exec)]
    /\ other' = "settled"
    /\ UNCHANGED << clock, cache, gen, license, loaded, runtime, env, keySources, host, manifestFile, bin0,
                    isCI, pc, results, verifier, dl, calls, lastVerify, gateLog, compat,
                    exitCode >>

\* a valid key, real manifest entries, every file, with and without
\* development mode
InitConcurrent ==
    /\ env \in DevEnvs
    /\ keySources = OnlyEnvKey(ProKey)
    /\ host \in {[platform |-> "linux", arch |-> "x64"], [platform |-> "win32", arch |-> "x64"]}
    /\ manifestFile = Manifest(PlatformKeys,
                               [sha256 |-> SHA256("real"), missing |-> FALSE,
                                dev_placeholder |-> FALSE])
    /\ \E f \in InitialFiles : bin = BinWith(ArtifactName(host), f)
    /\ Constructed

SpecConcurrent ==
    InitConcurrent /\ [][Next \/ OtherAttemptOpens \/ OtherAttemptSettles]_vars

-----------------------------------------------------------------------------
(* lib/license-manager.js with its cache file: validateLicense as
   check-license and the server call it, and the clear-cache command *)

\* latest value of the clock
MaxClock == 50

\* getCachedValidation(apiKey): what validateLicense gets from the cache at
\* time now.  No file or no JSON: null.  Another key: null.  Older than
\* cacheExpiry (24 hours; a comparison with NaN is false): null.  Else
\* cache.validation.
getCachedValidation(c, apiKey, now) ==
    IF ~c.exists THEN "none"
    ELSE IF c.apiKey # apiKey THEN "none"
    ELSE IF c.dated /\ now - c.timestamp > 24 THEN "none"
    ELSE IF c.valid THEN "valid"
    ELSE "invalid"

\* validateLicense() after `elapsed` hours; cacheValidation writes the fresh
\* result unless writeFile fails (the error is logged only)
ValidateLicense ==
    /\ pc = "license"
    /\ \E elapsed \in {0, 24, 25}, writeOk \in BOOLEAN :
       LET now    == clock + elapsed
           apiKey == keySources.env
           result == validateLicense(keySources, getCachedValidation(cache, apiKey, now))
       IN
       /\ now <= MaxClock
       /\ clock' = now
       /\ license' = [checked |-> TRUE, valid |-> result.valid, error |-> result.error,
                      type |-> result.type,
                      output |-> IF result.valid THEN "License valid"
                                 ELSE "License invalid or missing",
                      exit |-> 0]
       /\ cache' = IF result.valid /\ result.type # "cached" /\ writeOk
                   THEN [exists |-> TRUE, apiKey |-> apiKey, timestamp |-> now,
                         dated |-> TRUE, valid |-> TRUE, type |-> result.type]
                   ELSE cache
    /\ UNCHANGED << other, gen, loaded, runtime, env, keySources, host, manifestFile, bin, bin0,
                    isCI, pc, results, verifier, dl, calls, lastVerify, gateLog, compat,
                    exitCode >>

\* `clear-cache`: fs.unlink of the cache file; an error of unlink (no file,
\* no permission) is logged only, and the command prints its success
\* message in every case
ClearCache ==
    /\ pc = "license"
    /\ \E unlinkOk \in BOOLEAN :
          cache' = IF unlinkOk /\ cache.exists THEN NoCache ELSE cache
    /\ license' = [NoLicense EXCEPT !.output = "Cache cleared successfully"]
    /\ UNCHANGED << clock, other, gen, loaded, runtime, env, keySources, host, manifestFile, bin, bin0,
                    isCI, pc, results, verifier, dl, calls, lastVerify, gateLog, compat,
                    exitCode >>

\* a key in OPTIMIZER_API_KEY or none; no cache file, or an entry written
\* at time 0 for this or another key, valid or not, dated or not
InitLicense ==
    /\ env = BaseEnv
    /\ keySources \in {OnlyEnvKey(k) : k \in {ProKey, LegacyKey, NoKey, InvalidKey}}
    /\ host = [platform |-> "linux", arch |-> "x64"]
    /\ manifestFile = NoManifest
    /\ bin = BinWith(ArtifactName(host), NoFile)
    /\ bin0 = bin
    /\ isCI = detectCIEnvironment(env)
    /\ pc = "license"
    /\ results = NewResults(isCI)
    /\ verifier = NewVerifier(env)
    /\ dl = NoDownload
    /\ calls = NoCalls
    /\ lastVerify = NoVerify
    /\ gateLog = << >>
    /\ compat = NoCompat
    /\ exitCode = -1
    /\ runtime = NoRuntime
    /\ loaded = NoLoad
    /\ license = NoLicense
    /\ gen = NoRun
    /\ other = "idle"
    /\ cache \in {NoCache} \cup
                 [exists : {TRUE}, apiKey : {ProKey, LegacyKey}, timestamp : {0},
                  dated : BOOLEAN, valid : BOOLEAN, type : {"local_pro"}]
    /\ clock = 0

SpecLicense == InitLicense /\ [][ValidateLicense \/ ClearCache]_vars

-----------------------------------------------------------------------------
(* Properties *)

CurrentKey == detectPlatform(host)

HasEntry == manifestFile.readable /\ CurrentKey \in DOMAIN manifestFile.binaries

CurrentEntry == manifestFile.binaries[CurrentKey]

ArtifactFile == bin[CurrentEntry.filename]

\* runSecurityGates has returned
Returned == pc \in {"gatesReturned", "postinstall", "done", "exited"}

IsPrefix(s, t) == Len(s) <= Len(t) /\ \A i \in 1..Len(s) : s[i] = t[i]

GateOrder == << "apiKey", "binaryAvailable", "binaryIntegrity" >>

GateOfError(label) ==
    CASE label = "API Key"             -> "apiKey"
      [] label = "Binary Availability" -> "binaryAvailable"
      [] OTHER                         -> "binaryIntegrity"

DownloadErrorKinds ==
    {"connection error", "Redirect without location header", "HTTP status", "write error"}

\* C1: in an attempt that is neither bypassed nor in development mode, when
\* runSecurityGates has returned overall=true the artifact file of the
\* current platform exists and its SHA-256 digest equals the sha256 of the
\* manifest entry, for every shape of entry.
C1_DigestMatchesOnPass ==
    (Returned /\ ~isCI /\ ~devModeOf(env) /\ results.overall) =>
        /\ HasEntry
        /\ ArtifactFile.exists
        /\ SHA256(ArtifactFile.content) = CurrentEntry.sha256

\* C2: without bypass the gates run in the order Credential, Availability,
\* Integrity; once a gate has failed the record returned has overall=false,
\* the failed gate is the last one that ran and no compatibility check runs;
\* after a credential failure the verifier and the fetcher were never
\* invoked and no request was made.
C2_GatesShortCircuit ==
    ~isCI =>
        /\ IsPrefix(gateLog, GateOrder)
        /\ results.errors # << >> =>
              /\ pc \in {"gatesReturned", "exited"}
              /\ ~results.overall
              /\ gateLog # << >>
              /\ gateLog[Len(gateLog)] = GateOfError(results.errors[1].gate)
              /\ calls.compat = 0
              /\ ~compat.ran
        /\ (results.errors # << >> /\ results.errors[1].gate = "API Key") =>
              /\ calls.verifierNew = 0
              /\ calls.verify = 0
              /\ ~lastVerify.called
              /\ calls.fetch = 0
              /\ calls.requests = 0

C2_Witness ==
    /\ ~isCI
    /\ pc = "exited"
    /\ results.errors # << >>
    /\ results.errors[1].gate = "API Key"

\* the entry of the current platform expects a real artifact
RealEntry == HasEntry /\ ~CurrentEntry.missing /\ ~CurrentEntry.dev_placeholder

\* the latest verification looked at a file whose digest is not the manifest's
VerifiedDifferingFile ==
    /\ lastVerify.called
    /\ RealEntry
    /\ lastVerify.file.exists
    /\ SHA256(lastVerify.file.content) # CurrentEntry.sha256

IsHashMismatch(r) ==
    /\ ~r.ok
    /\ ~r.verified
    /\ r.error = "Hash mismatch"
    /\ r.expected = CurrentEntry.sha256
    /\ r.actual = SHA256(lastVerify.file.content)

\* C3 as stated: for an entry with dev_placeholder=false, missing=false and
\* a file whose digest differs from entry.sha256, verification fails with a
\* hash mismatch naming both digests, whatever the size, the content and the
\* development mode.
C3_MismatchAlwaysReported ==
    VerifiedDifferingFile => IsHashMismatch(lastVerify.result)

\* C3 amended: the hash mismatch (with both digests) is reported for every
\* differing file that is not classified as a placeholder, i.e. has at least
\* 10000 bytes or lacks the marker, whatever the development mode; a
\* differing file classified as a placeholder is accepted as a placeholder
\* in development mode and rejected as a placeholder in production, so
\* verified=true is returned for a differing file only in development mode
\* and only with isPlaceholder=true.
C3_MismatchReportedUnlessPlaceholder ==
    VerifiedDifferingFile =>
        LET f == lastVerify.file
            r == lastVerify.result
        IN  IF FileSize(f.content) >= PlaceholderMaxSize \/ ~HasMarker(f.content)
            THEN IsHashMismatch(r)
            ELSE IF devModeOf(env)
            THEN r.ok /\ r.verified /\ r.isPlaceholder /\ r.hash = "placeholder"
            ELSE ~r.ok /\ ~r.verified
                 /\ r.error = "Placeholder binary detected in production mode"

C3_Witness ==
    /\ VerifiedDifferingFile
    /\ devModeOf(env)
    /\ lastVerify.file.content = "bigstub"
    /\ IsHashMismatch(lastVerify.result)

\* C4: a verification returns a placeholder success only when development
\* mode was opted into (NODE_ENV=development or MCP_DEV_MODE=true).
C4_PlaceholderOnlyInDevMode ==
    (lastVerify.called /\ lastVerify.result.ok /\ lastVerify.result.isPlaceholder) =>
        (env.NODE_ENV = "development" \/ env.MCP_DEV_MODE = "true")

\* C5: an installer constructed in a strict CI environment or with the
\* developer override returns overall=true, skippedInCI=true and no errors
\* from runSecurityGates, and never invokes the credential validator, the
\* verifier or the fetcher.
C5_BypassSkipsEverything ==
    (isCI /\ pc # "constructed") =>
        /\ results.overall
        /\ results.skippedInCI
        /\ results.errors = << >>
        /\ gateLog = << >>
        /\ calls.apiKey = 0
        /\ calls.verifierNew = 0
        /\ calls.verify = 0
        /\ calls.fetch = 0
        /\ calls.requests = 0

C5_Witness ==
    /\ isCI
    /\ pc = "gatesReturned"
    /\ results.overall
    /\ env.OPTIMIZER_SKIP_SECURITY = "true"
    /\ env.CI = Unset

\* CI is 'true' or '1' and a provider marker agrees
TwoSignals(e) ==
    /\ e.CI \in {"true", "1"}
    /\ \/ e.GITHUB_ACTIONS = "true"
       \/ e.TRAVIS = "true"
       \/ e.CIRCLECI = "true"
       \/ e.JENKINS_URL # Unset

\* the gates were skipped: runSecurityGates went on without Gate 1
BypassTaken == pc # "constructed" /\ calls.apiKey = 0

\* C6: the bypass is taken only if CI and a provider marker agree or the
\* override is 'true'; with a single marker Gate 1 runs.
C6_BypassNeedsTwoSignals ==
    /\ BypassTaken => (TwoSignals(env) \/ env.OPTIMIZER_SKIP_SECURITY = "true")
    /\ isCI => (TwoSignals(env) \/ env.OPTIMIZER_SKIP_SECURITY = "true")
    /\ (pc # "constructed" /\ ~TwoSignals(env) /\ env.OPTIMIZER_SKIP_SECURITY # "true") =>
           (calls.apiKey = 1 /\ ~results.skippedInCI)

C6_Witness ==
    /\ BypassTaken
    /\ env.CI = "1"
    /\ env.JENKINS_URL = "http://ci"
    /\ env.GITHUB_ACTIONS = Unset /\ env.TRAVIS = Unset /\ env.CIRCLECI = Unset
    /\ env.OPTIMIZER_SKIP_SECURITY = Unset

\* C7: without bypass, the compatibility checks run only after Gates 1-3
\* passed and then all three are evaluated; the attempt succeeds (post-install
\* tasks run, exit status 0) only if the three gates and the three sub-checks
\* passed; a failed gate or sub-check leads to exit status 1 and never to the
\* post-install tasks.
C7_CompatibilityExhaustive ==
    ~isCI =>
        /\ compat.ran =>
              /\ results.overall
              /\ gateLog = GateOrder
              /\ compat.evaluated = {"nodeVersion", "platform", "permissions"}
        /\ pc \in {"postinstall", "done"} =>
              /\ results.overall
              /\ results.errors = << >>
              /\ compat.ran
              /\ compat.nodeVersion /\ compat.platform /\ compat.permissions
        /\ pc = "done" => (exitCode = 0 /\ calls.postInstall = 1)
        /\ (results.errors # << >>
            \/ (compat.ran /\ ~(compat.nodeVersion /\ compat.platform /\ compat.permissions))) =>
              /\ calls.postInstall = 0
              /\ exitCode # 0
              /\ pc \in {"gatesReturned", "exited"}
              /\ pc = "exited" => exitCode = 1
        /\ pc = "exited" => exitCode = 1

C7_Witness ==
    /\ ~isCI
    /\ pc = "exited"
    /\ compat.ran
    /\ compat.evaluated = {"nodeVersion", "platform", "permissions"}
    /\ ~compat.nodeVersion
    /\ ~compat.platform
    /\ ~compat.permissions

\* C8: when a failed download is reported, the destination holds no file the
\* download created or truncated: a destination that was absent is absent,
\* and a file that was there has its content.
C8_NoLeftoverAfterFailedDownload ==
    (pc = "gatesReturned" /\ results.errors # << >>
        /\ results.errors[1].kind \in DownloadErrorKinds) =>
        LET f  == ArtifactFile
            f0 == bin0[CurrentEntry.filename]
        IN  IF f0.exists
            THEN f.exists => f.content = f0.content
            ELSE ~f.exists

\* C9: a valid credential, an entry with missing=true and without
\* dev_placeholder, development mode off, no local file and a fetch that
\* completed: runSecurityGates returns overall=true.
C9_MissingEntryPassesAfterFetch ==
    (/\ Returned
     /\ ~isCI
     /\ requireValidApiKey(keySources).ok
     /\ HasEntry /\ CurrentEntry.missing /\ ~CurrentEntry.dev_placeholder
     /\ ~devModeOf(env)
     /\ ~bin0[CurrentEntry.filename].exists
     /\ calls.fetchOk = 1) =>
        results.overall

\* C10: with missing=true in the entry of the current platform, an attempt
\* that is not bypassed reaches overall=true only after the fetcher was
\* invoked and completed in this attempt.
C10_MissingNeedsFetch ==
    (~isCI /\ HasEntry /\ CurrentEntry.missing /\ results.overall) =>
        (calls.fetch = 1 /\ calls.fetchOk = 1)

C10_Witness ==
    /\ ~isCI
    /\ HasEntry /\ CurrentEntry.missing
    /\ results.overall
    /\ devModeOf(env)
    /\ ~CurrentEntry.dev_placeholder
    /\ bin0[CurrentEntry.filename] = File("real", TRUE)
    /\ calls.fetchOk = 1

\* the latest verification looked at a file whose digest is the manifest's
VerifiedMatchingFile ==
    /\ lastVerify.called
    /\ RealEntry
    /\ lastVerify.file.exists
    /\ SHA256(lastVerify.file.content) = CurrentEntry.sha256

IsVerifiedReal(r) ==
    /\ r.ok
    /\ r.verified
    /\ ~r.isPlaceholder
    /\ r.hash = CurrentEntry.sha256
    /\ r.hashed

NoEntryForHost ==
    /\ manifestFile.readable
    /\ manifestFile.hasBinaries
    /\ CurrentKey \notin DOMAIN manifestFile.binaries

\* C12: when the manifest has no entry for the platform key,
\* verifyCurrentPlatform fails with an error that lists exactly the keys of
\* the manifest and the raw platform and architecture, and no file is read
\* or hashed; Gate 2 fails with 'Platform not supported', the fetcher is not
\* invoked, no request is made and bin/ is untouched.
C12_UnsupportedPlatformReported ==
    NoEntryForHost =>
        /\ (lastVerify.called /\ lastVerify.manifestPath = DefaultManifestPath) =>
              LET r == lastVerify.result IN
              /\ ~r.ok
              /\ ~r.verified
              /\ r.error = "No binary available for platform"
              /\ r.available = DOMAIN manifestFile.binaries
              /\ r.raw = host
              /\ ~r.hashed
              /\ lastVerify.file = NoFile
        /\ (~isCI /\ Len(gateLog) >= 2) =>
              /\ pc \in {"gatesReturned", "exited"}
              /\ ~results.overall
              /\ results.errors =
                    << GateError("Binary Availability", "Platform not supported", "", "") >>
              /\ calls.fetch = 0
              /\ calls.fetchOk = 0
              /\ calls.requests = 0
              /\ bin = bin0

\* win32-x64 verified against a manifest that only has linux-x64
C12_Witness ==
    /\ NoEntryForHost
    /\ pc = "quickVerified"
    /\ lastVerify.manifestPath = DefaultManifestPath
    /\ host.platform = "win32"
    /\ lastVerify.result.error = "No binary available for platform"
    /\ lastVerify.result.available = {"linux-x64"}

\* C13: when the entry of the current platform has dev_placeholder=true and
\* development mode is on, verification returns verified=true,
\* isPlaceholder=true and computes no hash, whether the artifact is absent,
\* a placeholder file or any other file.
C13_DevPlaceholderAlwaysAccepted ==
    (/\ lastVerify.called
     /\ lastVerify.manifestPath = DefaultManifestPath
     /\ HasEntry
     /\ CurrentEntry.filename # Undefined
     /\ CurrentEntry.dev_placeholder
     /\ devModeOf(env)) =>
        LET r == lastVerify.result IN
        /\ r.ok
        /\ r.verified
        /\ r.isPlaceholder
        /\ ~r.hashed

\* the artifact the attempt found in bin/
LocalArtifact == bin0[CurrentEntry.filename]

\* the attempt found an artifact that is hashed and whose digest is not the
\* manifest's
LocalHashMismatch ==
    /\ RealEntry
    /\ CurrentEntry.filename # Undefined
    /\ LocalArtifact.exists
    /\ ~isPlaceholderFile(LocalArtifact)
    /\ SHA256(LocalArtifact.content) # CurrentEntry.sha256

\* C14: in one attempt the fetcher is invoked at most once, and only when
\* the local artifact is missing or a placeholder; after a hash mismatch of
\* the local file there is no fetch and no request and Gate 2 fails; after a
\* hash mismatch of the downloaded file the attempt fails without another
\* fetch.
C14_NoFetchAfterHashMismatch ==
    ~isCI =>
        /\ calls.fetch <= 1
        /\ calls.fetch = 1 =>
              /\ HasEntry
              /\ CurrentEntry.filename # Undefined
              /\ (~LocalArtifact.exists \/ isPlaceholderFile(LocalArtifact))
        /\ LocalHashMismatch =>
              /\ calls.fetch = 0
              /\ calls.requests = 0
              /\ Len(gateLog) >= 2 => (pc \in {"gatesReturned", "exited"} /\ ~results.overall)
        /\ (calls.fetchOk = 1 /\ lastVerify.result.error = "Hash mismatch") =>
              /\ calls.fetch = 1
              /\ pc \in {"gatesReturned", "exited"}
              /\ ~results.overall

\* C15: runSecurityGates never throws or rejects: the caller always receives
\* the results record, and a record that does not pass has overall=false and
\* an entry in errors for the gate that failed.
C15_GatesAlwaysReturn ==
    /\ pc # "crashed"
    /\ (Returned /\ ~isCI /\ ~results.overall) =>
          /\ Len(results.errors) = 1
          /\ gateLog # << >>
          /\ GateOfError(results.errors[1].gate) = gateLog[Len(gateLog)]

\* C16: whatever the server answers, a download that has started ends:
\* downloadFile resolves or rejects after finitely many requests and Gate 2
\* terminates.
C16_DownloadTerminates == (pc = "downloading") ~> (pc # "downloading")

\* a response with a redirect status of any kind
Is3xx(status) == status \in {"300", "301", "302", "303", "307", "308"}

\* C17: after a 3xx response without a location header the fetch has failed
\* with the redirect-without-location error, not with the HTTP status
\* error, and no request is in flight.
C17_RedirectWithoutLocationReported ==
    (Is3xx(dl.response.status) /\ ~dl.response.location) =>
        /\ pc \in {"gatesReturned", "exited"}
        /\ dl.dest = "none"
        /\ ~results.overall
        /\ Len(results.errors) = 1
        /\ results.errors[1].gate = "Binary Availability"
        /\ results.errors[1].kind = "Redirect without location header"

\* C18: what the runtime starts after an installation that passed the gates
\* for a real manifest entry in production mode is a file whose SHA-256
\* digest is the digest of the manifest, also when the artifact was modified
\* between the installation and the start.
C18_RuntimeExecutesOnlyVerified ==
    (/\ runtime.started
     /\ runtime.via = "binary"
     /\ ~isCI
     /\ ~devModeOf(env)
     /\ RealEntry) =>
        /\ runtime.name = CurrentEntry.filename
        /\ SHA256(runtime.file.content) = CurrentEntry.sha256

\* the manifest parses but has no binaries map, or an entry of it lacks
\* filename or sha256
SchemaViolated ==
    /\ manifestFile.readable
    /\ \/ ~manifestFile.hasBinaries
       \/ \E k \in DOMAIN manifestFile.binaries :
             \/ manifestFile.binaries[k].filename = Undefined
             \/ manifestFile.binaries[k].sha256 = Undefined

\* C19: with a manifest that violates the schema no verification returns a
\* result (each fails) and no installation attempt that runs the gates
\* passes.
C19_SchemaViolationNeverVerifies ==
    SchemaViolated =>
        /\ (lastVerify.called /\ lastVerify.manifestPath = DefaultManifestPath) =>
              (~lastVerify.result.ok /\ ~lastVerify.result.verified)
        /\ ~isCI => ~results.overall

IsManifestLoadError(r, path) ==
    /\ ~r.ok
    /\ ~r.verified
    /\ ~r.hashed
    /\ r.error = "Failed to load manifest"
    /\ r.path = path

\* C20: when the manifest file is absent, unreadable or not JSON, the error
\* of loadManifest says 'Failed to load manifest' and names the path that
\* was tried, and what needs the manifest fails: a verification (at the
\* default path or at another one), Gate 2 (through the platform info, with
\* no verification and no fetch) and Gate 3; the attempt does not pass.
C20_ManifestLoadFailureReported ==
    /\ (lastVerify.called /\ lastVerify.manifestPath # DefaultManifestPath) =>
          IsManifestLoadError(lastVerify.result, lastVerify.manifestPath)
    /\ ~manifestFile.readable =>
          /\ (pc = "quickVerified" /\ lastVerify.manifestPath = DefaultManifestPath) =>
                (IsManifestLoadError(lastVerify.result, DefaultManifestPath) /\ exitCode = 1)
          /\ (~isCI /\ Len(gateLog) = 2 /\ pc # "gate3") =>
                /\ results.errors =
                      << GateError("Binary Availability", "Failed to load manifest", "", "") >>
                /\ calls.verify = 0
                /\ calls.fetch = 0
                /\ ~lastVerify.called
          /\ (~isCI /\ Len(gateLog) = 3) =>
                /\ IsManifestLoadError(lastVerify.result, DefaultManifestPath)
                /\ results.errors =
                      << GateError("Binary Integrity", "Failed to load manifest", "", "") >>
          /\ ~isCI => ~results.overall

\* a verifier built for a path without a file
C20_Witness ==
    /\ pc = "quickVerified"
    /\ manifestFile.readable
    /\ lastVerify.manifestPath = NonexistentManifestPath
    /\ IsManifestLoadError(lastVerify.result, NonexistentManifestPath)
    /\ exitCode = 1

\* a loadManifest call on the instance held in `verifier`
LoadStep == loaded'.calls = loaded.calls + 1

\* C21: within one verifier instance, once a loadManifest call has returned,
\* every later call returns that same manifest and does not read storage,
\* whatever has happened to the file; the first call on a newly constructed
\* verifier reads storage; and after a call that threw, the next call on the
\* same instance reads storage again.
C21_LoadMemoizedPerInstance ==
    [][LoadStep =>
         /\ loaded.okBefore =>
               /\ ~loaded'.threw
               /\ loaded'.returned = loaded.lastOk
               /\ loaded'.reads = loaded.reads
         /\ loaded.onInstance = 0 => loaded'.reads = loaded.reads + 1
         /\ (loaded.onInstance > 0 /\ loaded.threw /\ ~loaded.okBefore) =>
               loaded'.reads = loaded.reads + 1]_vars

\* the four checks, read off the key
PassesAllChecks(key) ==
    /\ key.length >= 25
    /\ key.format
    /\ key.hexRun >= 20 /\ key.hexChars >= 8
    /\ ~key.test

\* C22: once Gate 1 has run, a result (valid=true with a tier) is recorded
\* only for a key that passes all four checks; for any other key, and for no
\* key, the error names the setup methods or the expected formats, Gate 1 is
\* the only gate that ran and the attempt fails, and nothing was fetched.
C22_OnlyStrongKeysPassGate1 ==
    calls.apiKey > 0 =>
        LET key == getApiKey(keySources)
            thrown == requireValidApiKey(keySources)
        IN
        /\ results.apiKey # NullApiKey =>
              /\ PassesAllChecks(key)
              /\ results.apiKey.valid
              /\ results.apiKey.tier \in {"pro", "basic", "unknown"}
        /\ ~PassesAllChecks(key) =>
              /\ results.apiKey = NullApiKey
              /\ ~results.overall
              /\ gateLog = << "apiKey" >>
              /\ Len(results.errors) = 1
              /\ results.errors[1].gate = "API Key"
              /\ results.errors[1].kind = thrown.error
              /\ thrown.names \in {SetupMethods, FormatExamples}
              /\ calls.fetch = 0 /\ calls.requests = 0 /\ calls.verifierNew = 0

\* the sources in priority order, and those that hold a value
SourceOrder == << "env", "config", "dotenv" >>
Providers == {i \in 1..3 : keySources[SourceOrder[i]] # NoKey}

\* C23: the key Gate 1 validates comes from exactly one source, the first in
\* the order environment variable, config file, .env that holds a value:
\* that source's value (trimmed) is the key that is accepted when it passes
\* the four checks and the key that is rejected when it does not, whatever
\* the lower-priority sources hold.
C23_FirstSourceWins ==
    (calls.apiKey > 0 /\ Providers # {}) =>
        LET first == CHOOSE i \in Providers : \A j \in Providers : i <= j
            key == trim(keySources[SourceOrder[first]])
        IN
        /\ PassesAllChecks(key) =>
              /\ results.apiKey # NullApiKey
              /\ results.apiKey.key = key
        /\ ~PassesAllChecks(key) =>
              /\ results.apiKey = NullApiKey
              /\ results.errors[1].kind = IF key = NoKey
                                          THEN "No MCP Optimizer API key found"
                                          ELSE "Invalid API key format"

\* C24: the credential gate of the installation and the license check at
\* run time agree: whenever Gate 1 has run and check-license has run in the
\* same environment, Gate 1 accepted the key if and only if the license is
\* reported valid.
C24_InstallAndRuntimeAgree ==
    (license.checked /\ calls.apiKey > 0) =>
        (license.valid <=> results.apiKey # NullApiKey)

\* the first line of the error message contains 'API key'
MentionsApiKey(kind) ==
    kind \in {"No MCP Optimizer API key found", "Invalid API key format"}

\* C25: Gate 1 accepts every OPTIMIZER_API_KEY made of the prefix 'sk-local-'
\* and a non-empty token, with valid=true and a non-empty tier; and with no
\* key in any source the error it records mentions 'API key'.
C25_PrefixedKeyAccepted ==
    calls.apiKey > 0 =>
        /\ (keySources.env.skLocal /\ keySources.env.length > 9) =>
              /\ results.apiKey.valid
              /\ results.apiKey.tier \notin {"", "none"}
        /\ (keySources.env = NoKey /\ keySources.config = NoKey
              /\ keySources.dotenv = NoKey) =>
              /\ results.apiKey = NullApiKey
              /\ Len(results.errors) = 1
              /\ MentionsApiKey(results.errors[1].kind)

\* C26: check-license ends with a non-zero status when OPTIMIZER_API_KEY is
\* missing or has an invalid format, ends with status 0 only when the
\* license is valid, and reports the key 'sk-local-test-12345' as validated.
C26_CheckLicenseExitStatus ==
    license.checked =>
        /\ (keySources.env = NoKey \/ ~license.valid) => license.exit # 0
        /\ license.exit = 0 => license.valid
        /\ keySources.env = ShortTestKey =>
              /\ license.exit = 0
              /\ license.output = "License validated"

\* the architecture part the claim gives for process.arch
ExpectedArch(a) ==
    IF a \in {"arm64", "aarch64"} THEN "arm64" ELSE "x64"

\* C27: the platform key a verification reports, in its result or in its
\* 'no binary available' error, is '<os>-<arch>' with the operating system
\* name unchanged and the architecture x64 for x64 and x86_64, arm64 for
\* arm64 and aarch64, and x64 for every other architecture.
C27_DetectPlatformMapping ==
    (lastVerify.called /\ lastVerify.result.platform # "") =>
        lastVerify.result.platform = host.platform \o "-" \o ExpectedArch(host.arch)

\* an unknown operating system on aarch64 has been reported as
\* unsupported-arm64
C27_Witness ==
    /\ lastVerify.called
    /\ host = [platform |-> "unsupported", arch |-> "aarch64"]
    /\ lastVerify.result.platform = "unsupported-arm64"

\* the latest generator run recorded the digest of a file for the platform
\* of the host, and bin/ holds a file of the same bytes under the entry's name
RecordedAndPlaced ==
    /\ gen.op = "update"
    /\ gen.exit = 0
    /\ gen.platform = CurrentKey
    /\ bin[manifestFile.binaries[CurrentKey].filename].exists
    /\ bin[manifestFile.binaries[CurrentKey].filename].content = gen.input.content

\* C28: whatever the bytes of the artifact, once updatePlatformEntry has
\* recorded their digest for a platform and the same bytes are at
\* bin/<entry.filename>, the verification for that platform succeeds with
\* verified=true, isPlaceholder=false and a hash equal to the recorded sha256.
C28_GeneratorVerifierRoundTrip ==
    (pc = "generatorVerified" /\ RecordedAndPlaced) =>
        LET r == lastVerify.result IN
        /\ r.ok
        /\ r.verified
        /\ ~r.isPlaceholder
        /\ r.hash = manifestFile.binaries[CurrentKey].sha256

\* the content whose digest an entry records is placeholder-shaped
RecordsPlaceholder(e) ==
    \E c \in Contents :
        /\ e.sha256 = SHA256(c)
        /\ FileSize(c) < PlaceholderMaxSize
        /\ HasMarker(c)

\* C29: a manifest written by generateDevManifest, and every manifest made
\* from it by updatePlatformEntry runs, has an entry for each of the five
\* platform keys, and for each entry: missing implies sha256 and size are
\* null; verified implies sha256 is the digest of a file and the entry is
\* neither missing nor a dev_placeholder; and no entry with verified=true
\* records a placeholder-shaped file.
C29_GeneratedManifestInvariants ==
    gen.fromDev =>
        /\ DOMAIN manifestFile.binaries = PlatformKeys
        /\ \A k \in PlatformKeys :
              LET e == manifestFile.binaries[k] IN
              /\ e.missing => (e.sha256 = Null /\ e.size = 0)
              /\ e.verified =>
                    /\ \E c \in Contents : e.sha256 = SHA256(c)
                    /\ ~e.missing
                    /\ ~e.dev_placeholder
              /\ e.verified => ~RecordsPlaceholder(e)

\* the fields of a record other than those named
OtherFieldsKept(old, new, changed) ==
    /\ DOMAIN old \ changed = DOMAIN new \ changed
    /\ \A f \in DOMAIN old \ changed : new[f] = old[f]

\* C30: a run of updatePlatformEntry either finds no binary file, no manifest
\* file or no entry for the platform, and then leaves manifest.json as it
\* was and exits with status 1; or it exits with 0 having changed only the
\* named entry (sha256, size, build_date, verified=true, development flags
\* off) and the build_date and build_commit of the manifest: every other
\* entry and every other field is as before.
C30_UpdateChangesOnlyItsEntry ==
    gen.op = "update" =>
        LET old == gen.before
            p == gen.platform
            f == gen.input
        IN
        IF \/ ~f.exists
           \/ ~old.readable
           \/ ~old.hasBinaries
           \/ p \notin DOMAIN old.binaries
        THEN /\ manifestFile = old
             /\ gen.exit = 1
        ELSE /\ gen.exit = 0
             /\ OtherFieldsKept(old, manifestFile, {"binaries", "build_date", "build_commit"})
             /\ manifestFile.build_date = gen.runs
             /\ manifestFile.build_commit = gen.commit
             /\ DOMAIN manifestFile.binaries = DOMAIN old.binaries
             /\ \A k \in DOMAIN old.binaries \ {p} :
                   manifestFile.binaries[k] = old.binaries[k]
             /\ LET e == manifestFile.binaries[p] IN
                /\ OtherFieldsKept(old.binaries[p], e,
                                   {"sha256", "size", "build_date", "verified",
                                    "last_updated", "dev_placeholder", "missing"})
                /\ e.sha256 = SHA256(f.content)
                /\ e.size = FileSize(f.content)
                /\ e.build_date = MTime(f)
                /\ e.verified
                /\ ~e.dev_placeholder
                /\ ~e.missing

\* the entry of win32-x64 in a scanned manifest has been updated
C30_Witness ==
    /\ gen.op = "update"
    /\ gen.exit = 0
    /\ gen.fromDev
    /\ gen.platform = "win32-x64"
    /\ gen.before.binaries["linux-x64"].verified
    /\ manifestFile.binaries["win32-x64"].sha256 = SHA256("real")

-----------------------------------------------------------------------------
ContentChanged(n) ==
    bin'[n].exists # bin[n].exists \/ bin'[n].content # bin[n].content

(* C31: no step of an installation attempt writes, truncates or deletes the
   manifest file, and the only file of bin/ whose content (or existence) a
   step changes is the host's artifact bin/<entry.filename>, changed by the
   download of Gate 2 (its first request, or the download in flight). *)
C31_OnlyFetcherWritesArtifact ==
    [][/\ manifestFile' = manifestFile
       /\ \A n \in DOMAIN bin :
             ContentChanged(n) =>
                /\ HasEntry
                /\ n = CurrentEntry.filename
                /\ pc \in {"gate2", "downloading"}
                /\ n \in {dl.dest, dl'.dest}]_vars

\* a download has replaced the host's artifact while other files are in bin/
C31_Witness ==
    /\ pc = "downloaded"
    /\ HasEntry
    /\ bin[CurrentEntry.filename] # bin0[CurrentEntry.filename]
    /\ \E n \in DOMAIN bin : n # CurrentEntry.filename /\ bin[n].exists

-----------------------------------------------------------------------------
\* C32: a download whose response body is interrupted after a 200 status
\* settles: downloadFile rejects, runSecurityGates returns and the attempt
\* ends with an outcome.
C32_InterruptedBodySettles == (pc = "bodyPending") ~> Returned

-----------------------------------------------------------------------------
Writing == pc \in {"downloading", "bodyPending"}

CompleteBodies == {"real", "tampered", "stub"}

(* C33: a successful fetch is ordered: body written and stream closed, then
   the execute bit (not on Windows), then the verifier again.  No
   verification starts while a download is writing; an execute bit is set
   only in the step that follows a completed download (on the downloaded
   file) or by the permissions check, never by a download that is in flight
   or fails; Gate 2 succeeds after a fetch only in the step that follows
   the completed download, in which the verifier saw the complete file with
   its execute bit set (on Windows: unchanged) and returned verified. *)
C33_FetchThenChmodThenVerify ==
    [][/\ calls'.verify # calls.verify => ~Writing
       /\ \A n \in DOMAIN bin :
             (bin'[n].exec /\ ~bin[n].exec) =>
                \/ pc = "downloaded" /\ n = dl.dest /\ host.platform # "win32"
                \/ pc = "gatesReturned"
       /\ (calls.fetch >= 1 /\ results.binaryAvailable = Null
              /\ results'.binaryAvailable # Null) =>
             /\ pc = "downloaded"
             /\ bin[dl.dest].content \in CompleteBodies
             /\ calls'.fetchOk = 1
             /\ calls'.verify = calls.verify + 1
             /\ lastVerify'.file.content = bin[dl.dest].content
             /\ lastVerify'.file.exec = (IF host.platform = "win32"
                                         THEN bin[dl.dest].exec ELSE TRUE)
             /\ bin'[dl.dest] = lastVerify'.file
             /\ lastVerify'.result.ok /\ lastVerify'.result.verified
       /\ (pc = "downloaded" /\ host.platform = "win32") => bin' = bin]_vars

\* a fetch on a non-Windows host has succeeded: the file was absent or not
\* executable, is now executable, and Gate 2 has passed
C33_Witness ==
    /\ pc = "gate3"
    /\ calls.fetchOk = 1
    /\ host.platform # "win32"
    /\ ~bin0[results.binaryAvailable].exec
    /\ bin[results.binaryAvailable].exec
    /\ lastVerify.result.verified

-----------------------------------------------------------------------------
\* C34: when the permissions check has passed on a host that is not
\* Windows, the host's artifact bin/<entry.filename> exists and has its
\* execute bit: a missing bit has been repaired.
C34_PermissionsPassMeansExecutable ==
    (compat.ran /\ compat.permissions /\ host.platform # "win32" /\ HasEntry) =>
        /\ ArtifactFile.exists
        /\ ArtifactFile.exec

-----------------------------------------------------------------------------
\* C35: the platform compatibility check passes exactly for the hosts whose
\* normalized platform key is one of the five supported keys, so it agrees
\* with the support decision Gate 2 made for the same host.
C35_CheckPlatformAgreesWithGate2 ==
    compat.ran =>
        /\ compat.platform <=> (detectPlatform(host) \in PlatformKeys)
        /\ compat.platform <=> supported(manifestFile, host)

-----------------------------------------------------------------------------
\* the attempt has reported that its gates passed, on a real binary
PassedOnRealBinary ==
    /\ pc \in {"gatesReturned", "postinstall", "done"}
    /\ ~isCI
    /\ results.overall
    /\ ~results.binaryIntegrity.isPlaceholder

ArtifactMatches ==
    ArtifactFile.exists /\ SHA256(ArtifactFile.content) = CurrentEntry.sha256

(* C36: two installers on the same bin/ are not kept apart.  An installer
   that has reported Passed on a real binary has beside it an artifact that
   does not match the manifest digest only when the second installer has
   opened the file (and this does happen: C36_Witness); alone, Passed
   implies that the artifact matches. *)
C36_MismatchAfterPassOnlyByOtherInstaller ==
    (PassedOnRealBinary /\ ~ArtifactMatches) => other # "idle"

\* this installer has passed all gates and goes on to report success while
\* the second installer has truncated the artifact and is still writing it
C36_Witness ==
    /\ PassedOnRealBinary
    /\ pc = "postinstall"
    /\ other = "writing"
    /\ ArtifactFile.content = "empty"
    /\ ~ArtifactMatches

-----------------------------------------------------------------------------
\* the result fields of the gates after the gate an error names are null
LaterFieldsNull(gate) ==
    /\ results.binaryIntegrity = NullVerify
    /\ gate \in {"apiKey", "binaryAvailable"} => results.binaryAvailable = Null
    /\ gate = "apiKey" => results.apiKey = NullApiKey

(* C37: the record runSecurityGates returns: overall=true implies no errors;
   without bypass overall=false implies exactly one error, naming the gate
   that ran last (the first that failed), with the result fields of that
   gate and of the later gates still null; a placeholder result at Gate 3
   comes with exactly one warning and with overall=true, any other record
   has no warning. *)
C37_ReturnedRecordShape ==
    Returned =>
        /\ results.overall => results.errors = << >>
        /\ (~isCI /\ ~results.overall) =>
              /\ Len(results.errors) = 1
              /\ gateLog # << >>
              /\ GateOfError(results.errors[1].gate) = gateLog[Len(gateLog)]
              /\ LaterFieldsNull(gateLog[Len(gateLog)])
        /\ IF results.binaryIntegrity.isPlaceholder
           THEN Len(results.warnings) = 1 /\ results.overall
           ELSE results.warnings = << >>

\* Gate 3 returned a placeholder result and the gates passed with a warning
C37_Witness ==
    /\ Returned
    /\ results.binaryIntegrity.isPlaceholder
    /\ results.warnings = << "Using development placeholder binary" >>
    /\ results.overall

-----------------------------------------------------------------------------
\* the step is a validateLicense call that returned the cached validation
ReturnsCached == license'.checked /\ license'.type = "cached"

(* C38: validateLicense returns the cached validation only if the cache
   entry is for the same API key, at most 24 hours old and valid; and the
   first validateLicense after clear-cache, for a key of valid format, is a
   fresh validation that writes the cache. *)
C38_CacheUsedOnlyWhenFresh ==
    [][/\ ReturnsCached =>
             /\ cache.exists
             /\ cache.apiKey = keySources.env
             /\ cache.valid
             /\ cache.dated /\ clock' - cache.timestamp <= 24
       /\ (license.output = "Cache cleared successfully" /\ license'.checked
              /\ licenseKeyFormat(keySources.env)) =>
             /\ license'.valid
             /\ license'.type # "cached"
             /\ cache'.exists /\ cache'.apiKey = keySources.env
             /\ cache'.timestamp = clock']_vars

-----------------------------------------------------------------------------
\* C39: the binary discoverBinary selects is named for the operating system
\* and the architecture of the host; when there is none, nothing is
\* selected and a fallback strategy is set.
C39_SelectedBinaryIsForHost ==
    (pc = "running") =>
        IF runtime.via = "binary"
        THEN /\ NameParts(runtime.name).platform = platformInfo(host).platform
             /\ NameParts(runtime.name).arch = platformInfo(host).arch
        ELSE runtime.via \in {"python3", "python", "error"}

-----------------------------------------------------------------------------
(* C40: when the selected binary exits with a code other than 0 or cannot
   be spawned, executeBinary runs the Python fallback with a determined
   interpreter and settles with its result, or rejects with 'No execution
   method available' when there is none, whatever the calls before. *)
C40_FallbackAfterBinaryFailure ==
    (pc = "ended" /\ runtime.via = "binary" /\ runtime.exit # "0") =>
        /\ runtime.fallbackStrategy \in {"python3", "python", "error"}
        /\ runtime.settled \in {"resolved: fallback",
                                "rejected: Fallback execution failed",
                                "rejected: No execution method available"}
        /\ (runtime.settled = "rejected: No execution method available")
              <=> (runtime.fallbackStrategy = "error")

====
